---- MODULE Spec2Model ----
(***************************************************************************)
(* Pyramid IRC relay: the message cache engine (bounded caches, event      *)
(* bunching, highlight contexts), the multi-server channel calibration and *)
(* the relationship tier of a message author.                              *)
(***************************************************************************)
EXTENDS Integers, Sequences, FiniteSets, TLC

(***************************************************************************)
(* Bounds.  The cache length limits of the source (20, 500 and the default *)
(* 150) are scaled down, keeping their order MinCacheLines <               *)
(* DefaultCacheLines < MaxCacheLines; so are the bunch size and the        *)
(* highlight context size, whose values live in constants.js.              *)
(***************************************************************************)
MinCacheLines == 2

DefaultCacheLines == 3

MaxCacheLines == 4

MaxBunchSize == 2

MaxContextLines == 1

\* Line ids (uuid.v4 calls) a run of each specification may draw.
MaxLineIds == 4

MaxBunchLineIds == 9

MaxContextLineIds == 5

MaxFriendLineIds == 2

MaxServerLineIds == 3

MaxRequestLineIds == 1

MaxViewerLineIds == 1

MaxUnseenLineIds == 4

MaxOutgoingLineIds == 2
\* The line ids handed out while the two periodic flushes run.
MaxFlushLineIds == 6
\* The line ids handed out while writes are called back.
MaxPersistLineIds == 4
\* The line ids handed out while the writes handed to storage are counted.
MaxStorageLineIds == 6
\* The line ids handed out while viewers leave during a publish.
MaxReentrantLineIds == 2
\* The line ids handed out while events arrive with or without channel state.
MaxIncomingLineIds == 5

\* Servers in a loaded configuration, and clients created.
MaxServers == 2

MaxClients == 3

\* Entries of config.bestFriends and of config.friends.
MaxFriends == 1

(***************************************************************************)
(* Program constants.                                                      *)
(***************************************************************************)
RELATIONSHIP_NONE == 0

RELATIONSHIP_FRIEND == 1

RELATIONSHIP_BEST_FRIEND == 2

CACHE_LINES == DefaultCacheLines

BUNCHED_EVENT_SIZE == MaxBunchSize

CONTEXT_CACHE_LINES == MaxContextLines

\* Mutant: a message at the tail is taken as bunchable, too.
BunchableAndMessageTypes == {"join", "part", "quit", "kick", "mode", "kill", "msg"}

BUNCHABLE_EVENT_TYPES == {"join", "part", "quit", "kick", "mode", "kill"}

PART_EVENT_TYPES == {"part", "quit", "kick", "kill"}

logLinesDb == TRUE

(***************************************************************************)
(* Input alphabets.                                                        *)
(***************************************************************************)
Channels == {"alpha/x"}

\* The channels of both servers; the caches and the lists of recipients are
\* kept for each of them.
ChannelUris == {"alpha/x", "beta/x"}

Users == {"alice"}

\* The senders handleMessage sees; each is a user cache key.
Senders == {"alice", "Alice", "bob"}

ServerNames == {"alpha", "beta"}

\* The channels a configured server may list: one channel, the same channel
\* twice, two channels.
ChannelLists == {<<"x">>, <<"x", "x">>, <<"x", "y">>}

Categories == {"highlights", "allfriends", "system"}

\* The cache engine treats a best friend as it treats a friend.
RelationshipInputs == {RELATIONSHIP_NONE, RELATIONSHIP_FRIEND}

HighlightInputs == {<<>>, <<"me">>}

EventTypeInputs == {"join", "part", "mode"}

CacheLinesInputs ==
  {MinCacheLines - 1, MinCacheLines, MaxCacheLines, MaxCacheLines + 1}

VARIABLES
  channelCaches,             \* channel -> sequence of records
  userCaches,                \* username -> sequence of records
  categoryCaches,            \* category -> sequence of records
  currentHighlightContexts,  \* channel -> line ids of the open highlights
  contextMessages,           \* highlight line id -> its contextMessages list
  bunchableLinesToInsert,    \* line ids waiting for the periodic insert
  lineIdsToDelete,           \* line ids waiting for the periodic delete
  unseenHighlightIds,        \* the unseen highlight ids
  cacheLines,                \* the configured "cacheLines" value
  nextLineId,                \* the next line id uuid.v4 hands out
  history,                   \* key -> line ids appended (tail replaced by a bunch)
  run,                       \* channel -> the low-signal events arrived in a row
  clients,                   \* the IRC clients, in creation order
  multiServerChannels,       \* the channel names marked as multi server
  calibrated,                \* clients is unchanged since the last calibration
  bestFriends,               \* config.bestFriends
  friends,                   \* config.friends
  lastMessage,               \* the message handleMessage emitted last
  lastCall,                  \* the operator's call handled in the last step
  logRun,                    \* a log line: its data, the line built, the line parsed
  pending,                   \* the storage and log writes dispatched, not yet called back
  process,                   \* "running", or "uncaughtException" once a callback threw
  connectionToken,           \* socket -> the token the socket presented last
  recipients,                \* key -> the sockets subscribed to it, in order
  emitted,                   \* socket -> the events emitted to it in the last step
  transmitted,               \* the commands sent to IRC in the last step
  incoming                   \* the messages fed to the pipeline in the last step

cacheVars ==
  <<channelCaches, userCaches, categoryCaches, currentHighlightContexts,
    contextMessages, bunchableLinesToInsert, lineIdsToDelete,
    unseenHighlightIds, cacheLines, nextLineId, history, run>>

ircVars == <<clients, multiServerChannels, calibrated>>

friendVars == <<bestFriends, friends, lastMessage>>

logVars == <<logRun, pending, process>>

viewerVars == <<connectionToken, recipients, emitted>>

outVars == <<transmitted, incoming>>

ioVars == <<lastCall, logVars, viewerVars, outVars>>

vars == <<cacheVars, ircVars, friendVars, ioVars>>

(***************************************************************************)
(* Sequence helpers (Array.prototype.slice, indexOf).                      *)
(***************************************************************************)
Last(s) == s[Len(s)]

\* s.slice(Math.max(0, s.length - n)): the last n entries, all when shorter.
LastN(s, n) ==
  IF Len(s) > n THEN SubSeq(s, Len(s) - n + 1, Len(s)) ELSE s

SeqToSet(s) == {s[i] : i \in 1..Len(s)}

SeqsUpTo(S, n) == UNION {[1..k -> S] : k \in 0..n}

IsSuffix(s, t) ==
  /\ Len(s) <= Len(t)
  /\ s = SubSeq(t, Len(t) - Len(s) + 1, Len(t))

LineIds(s) == [i \in 1..Len(s) |-> s[i].lineId]

(***************************************************************************)
(* Records.  Every record carries the same fields; a field a kind does not *)
(* have is left at its empty value.                                        *)
(***************************************************************************)
Line(id, type, channel, username, relationship, highlight) ==
  [lineId |-> id, type |-> type, channel |-> channel, username |-> username,
   relationship |-> relationship, highlight |-> highlight,
   events |-> <<>>, joinCount |-> 0, partCount |-> 0, prevIds |-> <<>>]

Bunch(id, channel, events, joinCount, partCount, prevIds) ==
  [lineId |-> id, type |-> "events", channel |-> channel, username |-> "",
   relationship |-> RELATIONSHIP_NONE, highlight |-> <<>>,
   events |-> events, joinCount |-> joinCount, partCount |-> partCount,
   prevIds |-> prevIds]

isJoinEvent(data) == IF data.type = "join" THEN 1 ELSE 0

isPartEvent(data) == IF data.type \in PART_EVENT_TYPES THEN 1 ELSE 0

(***************************************************************************)
(* The cache engine.                                                       *)
(***************************************************************************)
getCacheLinesSetting(valueFromConfig) ==
  IF valueFromConfig >= MinCacheLines /\ valueFromConfig <= MaxCacheLines
    THEN valueFromConfig
    ELSE CACHE_LINES

\* Mutant: the sliced copy is dropped, as when cacheItem does not return it.
cacheItemSliceLost(cache, data, cacheLinesSetting) ==
  LET pushed == Append(cache, data)
  IN  IF Len(pushed) = cacheLinesSetting + 1 THEN Tail(pushed) ELSE pushed

\* Mutant: the newest entries are dropped (pop) instead of the oldest (shift).
cacheItemPop(cache, data, cacheLinesSetting) ==
  LET pushed == Append(cache, data)
  IN  IF Len(pushed) > cacheLinesSetting
        THEN SubSeq(pushed, 1, cacheLinesSetting)
        ELSE pushed

cacheItem(cache, data, cacheLinesSetting) ==
  LET pushed == Append(cache, data)
  IN  IF Len(pushed) > cacheLinesSetting
        THEN IF Len(pushed) = cacheLinesSetting + 1
               THEN Tail(pushed)
               ELSE SubSeq(pushed, Len(pushed) - cacheLinesSetting + 1, Len(pushed))
        ELSE pushed

\* Mutant: one record too many is taken as the context.
highlightContextOneMore(currentCache) ==
  LastN(currentCache, CONTEXT_CACHE_LINES + 1)

\* The context a new highlight starts with (part_003:278-283).
highlightContext(currentCache) == LastN(currentCache, CONTEXT_CACHE_LINES)

\* The contextMessages lists after addToCurrentHighlightContext(channel, msg).
addedContextMessages(channel, msg) ==
  [h \in DOMAIN contextMessages |->
     IF h \in SeqToSet(currentHighlightContexts[channel])
       THEN Append(contextMessages[h], msg)
       ELSE contextMessages[h]]

\* Mutant: a context that has reached its full size stays open.
survivingHighlightsInclusive(channel, msg) ==
  SelectSeq(currentHighlightContexts[channel],
            LAMBDA h : Len(addedContextMessages(channel, msg)[h])
                         <= 2 * CONTEXT_CACHE_LINES)

\* The open highlights of the channel that survive the addition.
survivingHighlights(channel, msg) ==
  SelectSeq(currentHighlightContexts[channel],
            LAMBDA h : Len(addedContextMessages(channel, msg)[h])
                         < 2 * CONTEXT_CACHE_LINES)

CacheInit ==
  /\ channelCaches = [c \in ChannelUris |-> <<>>]
  /\ userCaches = [u \in Senders |-> <<>>]
  /\ categoryCaches = [c \in Categories |-> <<>>]
  /\ currentHighlightContexts = [c \in ChannelUris |-> <<>>]
  /\ contextMessages = <<>>
  /\ bunchableLinesToInsert = {}
  /\ lineIdsToDelete = {}
  /\ unseenHighlightIds = {}
  /\ cacheLines = CACHE_LINES
  /\ nextLineId = 1
  /\ history = [k \in ChannelUris \cup Senders \cup Categories |-> <<>>]
  /\ run = [c \in ChannelUris |-> <<>>]

\* cacheChannelEvent(channel, data), for a record that is not low-signal.
CacheChannelEvent(channel, type) ==
  LET data == Line(nextLineId, type, channel, "", RELATIONSHIP_NONE, <<>>)
  IN  /\ channelCaches' = [channelCaches EXCEPT
           ![channel] = cacheItem(@, data, getCacheLinesSetting(cacheLines))]
      /\ nextLineId' = nextLineId + 1
      /\ history' = [history EXCEPT ![channel] = Append(@, data.lineId)]
      /\ run' = [run EXCEPT ![channel] = <<>>]
      /\ UNCHANGED <<userCaches, categoryCaches, currentHighlightContexts,
                     contextMessages, bunchableLinesToInsert, lineIdsToDelete,
                     unseenHighlightIds, cacheLines>>

\* Mutant: only a best friend counts as a friend.
friendTierBestOnly(relationship) == relationship > RELATIONSHIP_FRIEND

\* relationship >= constants.RELATIONSHIP_FRIEND (part_003:293)
friendTier(relationship) == relationship >= RELATIONSHIP_FRIEND

\* cacheMessage(channelUri, ..., username, ..., type, ..., relationship, highlightStrings)
CacheMessage(channel, username, type, relationship, highlightStrings) ==
  LET msg == Line(nextLineId, type, channel, username, relationship,
                  highlightStrings)
      isHighlight == Len(highlightStrings) > 0
      isFriend == friendTier(relationship)
      cap == getCacheLinesSetting(cacheLines)
      context == highlightContext(channelCaches[channel])
      added == addedContextMessages(channel, msg)
      surviving == survivingHighlights(channel, msg)
  IN  /\ channelCaches' = [channelCaches EXCEPT
           ![channel] = cacheItem(@, msg, cap)]
      /\ userCaches' =
           IF isFriend
             THEN [userCaches EXCEPT ![username] = cacheItem(@, msg, cap)]
             ELSE userCaches
      /\ categoryCaches' =
           [c \in Categories |->
              IF (c = "allfriends" /\ isFriend) \/ (c = "highlights" /\ isHighlight)
                THEN cacheItem(categoryCaches[c], msg, cap)
                ELSE categoryCaches[c]]
      /\ contextMessages' =
           IF isHighlight THEN (msg.lineId :> context) @@ added ELSE added
      /\ currentHighlightContexts' = [currentHighlightContexts EXCEPT
           ![channel] = IF isHighlight THEN Append(surviving, msg.lineId)
                                       ELSE surviving]
      /\ unseenHighlightIds' =
           IF isHighlight THEN unseenHighlightIds \cup {msg.lineId}
                          ELSE unseenHighlightIds
      /\ nextLineId' = nextLineId + 1
      /\ history' =
           [k \in DOMAIN history |->
              IF \/ k = channel
                 \/ (k = username /\ isFriend)
                 \/ (k = "allfriends" /\ isFriend)
                 \/ (k = "highlights" /\ isHighlight)
                THEN Append(history[k], msg.lineId)
                ELSE history[k]]
      /\ run' = [run EXCEPT ![channel] = <<>>]
      /\ UNCHANGED <<bunchableLinesToInsert, lineIdsToDelete, cacheLines>>

\* Mutant: the counters count the new event only.
createBunchNewOnly(lastItem, data, id) ==
  Bunch(id, lastItem.channel, <<lastItem, data>>,
        isJoinEvent(data), isPartEvent(data), <<lastItem.lineId>>)

\* Mutant: the first bunch does not name the line it replaces.
createBunchNoPrevIds(lastItem, data, id) ==
  Bunch(id, lastItem.channel, <<lastItem, data>>,
        isJoinEvent(data) + isJoinEvent(lastItem),
        isPartEvent(data) + isPartEvent(lastItem),
        <<>>)

\* The bunch made of a raw low-signal tail and the new event (part_003:194-205).
createBunch(lastItem, data, id) ==
  Bunch(id, lastItem.channel, <<lastItem, data>>,
        isJoinEvent(data) + isJoinEvent(lastItem),
        isPartEvent(data) + isPartEvent(lastItem),
        <<lastItem.lineId>>)

\* Mutant: the counters are counted over the members kept.
extendBunchCountKept(lastItem, data, id) ==
  LET events == LastN(Append(lastItem.events, data), BUNCHED_EVENT_SIZE)
  IN  Bunch(id, lastItem.channel, events,
            Cardinality({i \in 1..Len(events) : events[i].type = "join"}),
            Cardinality({i \in 1..Len(events) : events[i].type \in PART_EVENT_TYPES}),
            LastN(Append(lastItem.prevIds, lastItem.lineId), BUNCHED_EVENT_SIZE))

\* Mutant: the bunch is extended in place and keeps its line id.
extendBunchSameId(lastItem, data, id) ==
  Bunch(lastItem.lineId, lastItem.channel,
        LastN(Append(lastItem.events, data), BUNCHED_EVENT_SIZE),
        lastItem.joinCount + isJoinEvent(data),
        lastItem.partCount + isPartEvent(data),
        LastN(Append(lastItem.prevIds, lastItem.lineId), BUNCHED_EVENT_SIZE))

\* Mutant: the member list is not cut to the bunch size.
extendBunchUncapped(lastItem, data, id) ==
  Bunch(id, lastItem.channel,
        Append(lastItem.events, data),
        lastItem.joinCount + isJoinEvent(data),
        lastItem.partCount + isPartEvent(data),
        LastN(Append(lastItem.prevIds, lastItem.lineId), BUNCHED_EVENT_SIZE))

\* Mutant: the ids of the members that the cut drops are listed, not the id
\* of the bunch that is replaced.
extendBunchMemberIds(lastItem, data, id) ==
  LET all == Append(lastItem.events, data)
      dropped == SubSeq(all, 1, Len(all) - BUNCHED_EVENT_SIZE)
  IN  Bunch(id, lastItem.channel,
            LastN(all, BUNCHED_EVENT_SIZE),
            lastItem.joinCount + isJoinEvent(data),
            lastItem.partCount + isPartEvent(data),
            LastN(lastItem.prevIds \o LineIds(dropped), BUNCHED_EVENT_SIZE))

\* The bunch that extends the bunch at the tail (part_003:209-232).
extendBunch(lastItem, data, id) ==
  Bunch(id, lastItem.channel,
        LastN(Append(lastItem.events, data), BUNCHED_EVENT_SIZE),
        lastItem.joinCount + isJoinEvent(data),
        lastItem.partCount + isPartEvent(data),
        LastN(Append(lastItem.prevIds, lastItem.lineId), BUNCHED_EVENT_SIZE))

\* Mutant: the superseded ids stay in the insert cache.
ReplaceLastCacheItemKept(channel, data) ==
  /\ channelCaches' = [channelCaches EXCEPT
       ![channel] = [@ EXCEPT ![Len(@)] = data]]
  /\ bunchableLinesToInsert' =
       IF logLinesDb THEN bunchableLinesToInsert \cup {data.lineId}
                     ELSE bunchableLinesToInsert
  /\ lineIdsToDelete' = lineIdsToDelete \cup SeqToSet(data.prevIds)

\* Mutant: the bunch is pushed behind the tail it should replace.
ReplaceLastCacheItemPushed(channel, data) ==
  /\ channelCaches' = [channelCaches EXCEPT ![channel] = Append(@, data)]
  /\ bunchableLinesToInsert' =
       (IF logLinesDb THEN bunchableLinesToInsert \cup {data.lineId}
                      ELSE bunchableLinesToInsert) \ SeqToSet(data.prevIds)
  /\ lineIdsToDelete' = lineIdsToDelete \cup SeqToSet(data.prevIds)

\* replaceLastCacheItem(channel, data), with storeBunchableLine and
\* deleteLinesWithLineIds.
ReplaceLastCacheItem(channel, data) ==
  /\ channelCaches' = [channelCaches EXCEPT
       ![channel] = [@ EXCEPT ![Len(@)] = data]]
  /\ bunchableLinesToInsert' =
       (IF logLinesDb THEN bunchableLinesToInsert \cup {data.lineId}
                      ELSE bunchableLinesToInsert) \ SeqToSet(data.prevIds)
  /\ lineIdsToDelete' = lineIdsToDelete \cup SeqToSet(data.prevIds)

\* cacheBunchableChannelEvent(channel, data), data a low-signal event.
CacheBunchableChannelEvent(channel, type, username) ==
  LET data == Line(nextLineId, type, channel, username, RELATIONSHIP_NONE, <<>>)
      cache == channelCaches[channel]
      lastItem == Last(cache)
  IN  /\ run' = [run EXCEPT ![channel] = Append(@, data)]
      /\ UNCHANGED <<userCaches, categoryCaches, currentHighlightContexts,
                     contextMessages, unseenHighlightIds, cacheLines>>
      /\ IF Len(cache) > 0 /\ lastItem.type \in BUNCHABLE_EVENT_TYPES
           THEN LET bunch == createBunch(lastItem, data, nextLineId + 1)
                IN  /\ ReplaceLastCacheItem(channel, bunch)
                    /\ nextLineId' = nextLineId + 2
                    /\ history' = [history EXCEPT
                         ![channel] = [@ EXCEPT ![Len(@)] = bunch.lineId]]
           ELSE IF Len(cache) > 0 /\ lastItem.type = "events"
           THEN LET bunch == extendBunch(lastItem, data, nextLineId + 1)
                IN  /\ ReplaceLastCacheItem(channel, bunch)
                    /\ nextLineId' = nextLineId + 2
                    /\ history' = [history EXCEPT
                         ![channel] = [@ EXCEPT ![Len(@)] = bunch.lineId]]
           ELSE /\ channelCaches' = [channelCaches EXCEPT
                     ![channel] = cacheItem(@, data, getCacheLinesSetting(cacheLines))]
                /\ nextLineId' = nextLineId + 1
                /\ history' = [history EXCEPT ![channel] = Append(@, data.lineId)]
                /\ UNCHANGED <<bunchableLinesToInsert, lineIdsToDelete>>

\* _scheduledBunchableStore: the periodic insert of the pending bunches.
ScheduledBunchableStore ==
  /\ bunchableLinesToInsert # {}
  /\ bunchableLinesToInsert' = {}
  /\ UNCHANGED <<channelCaches, userCaches, categoryCaches,
                 currentHighlightContexts, contextMessages, lineIdsToDelete,
                 unseenHighlightIds, cacheLines, nextLineId, history, run>>

\* _scheduledLineDelete: the periodic delete of the superseded lines.
ScheduledLineDelete ==
  /\ lineIdsToDelete # {}
  /\ lineIdsToDelete' = {}
  /\ UNCHANGED <<channelCaches, userCaches, categoryCaches,
                 currentHighlightContexts, contextMessages,
                 bunchableLinesToInsert, unseenHighlightIds, cacheLines,
                 nextLineId, history, run>>

\* The "cacheLines" setting is changed at run time.
SetCacheLines(value) ==
  /\ value # cacheLines
  /\ cacheLines' = value
  /\ UNCHANGED <<channelCaches, userCaches, categoryCaches,
                 currentHighlightContexts, contextMessages,
                 bunchableLinesToInsert, lineIdsToDelete, unseenHighlightIds,
                 nextLineId, history, run>>


(***************************************************************************)
(* The IRC clients and the multi server channels (server/irc.js).          *)
(***************************************************************************)
\* "#" + channel.name
hashed(name) ==
  CASE name = "x" -> "#x"
    [] name = "y" -> "#y"

convertChannelObjects(channels) ==
  [i \in 1..Len(channels) |-> hashed(channels[i])]

\* The client initiateClient(cf) creates: extConfig.name and opt.channels.
\* aborted is _pyramidAborted, state the state the client reported last
\* (none yet), conn what the IRC library is doing for the client: a new
\* client connects by itself; nick is cf.nickname, one nickname being in
\* use.  held records that the operator has
\* disconnected the server and has not reconnected it since.
newClient(cf) ==
  [name |-> cf.name, nick |-> "me",
   channels |-> convertChannelObjects(cf.channels),
   aborted |-> FALSE, state |-> "", conn |-> "attempt", held |-> FALSE]

\* Every client's channels, in the order the two loops visit them.
RECURSIVE channelsVisited(_)
channelsVisited(cl) ==
  IF cl = <<>> THEN <<>>
  ELSE Head(cl).channels \o channelsVisited(Tail(cl))

RECURSIVE namesSeenBefore(_, _)
namesSeenBefore(visited, i) ==
  IF i > Len(visited) THEN <<>>
  ELSE (IF \E j \in 1..(i - 1) : visited[j] = visited[i]
          THEN <<visited[i]>> ELSE <<>>)
       \o namesSeenBefore(visited, i + 1)

calibrateMultiServerChannels(cl) == namesSeenBefore(channelsVisited(cl), 1)

\* The index of the first client with that name, 0 when there is none.
findClientByServerName(cl, serverName) ==
  IF \E i \in 1..Len(cl) : cl[i].name = serverName
    THEN CHOOSE i \in 1..Len(cl) :
           /\ cl[i].name = serverName
           /\ \A j \in 1..(i - 1) : cl[j].name # serverName
    ELSE 0

getChannelFullName(chobj) ==
  IF chobj.channel \in SeqToSet(multiServerChannels)
    THEN <<chobj.server, " ", chobj.channel>>
    ELSE <<chobj.channel>>

\* Mutant: a client is created for every server of the configuration.
RECURSIVE initiateUnconnectedAll(_, _, _)
initiateUnconnectedAll(cl, config, i) ==
  IF i > Len(config) THEN cl
  ELSE initiateUnconnectedAll(Append(cl, newClient(config[i])), config, i + 1)

\* The clients after connectUnconnectedClients has gone through the
\* configuration from its i-th server on.
RECURSIVE initiateUnconnected(_, _, _)
initiateUnconnected(cl, config, i) ==
  IF i > Len(config) THEN cl
  ELSE IF findClientByServerName(cl, config[i].name) = 0
    THEN initiateUnconnected(Append(cl, newClient(config[i])), config, i + 1)
    ELSE initiateUnconnected(cl, config, i + 1)

\* No two entries of the list (clients, or servers of a configuration) have
\* the same name.
distinctNames(list) ==
  \A i, j \in 1..Len(list) : list[i].name = list[j].name => i = j

ServerConfigs == [name : ServerNames, channels : ChannelLists]

IrcConfigs == SeqsUpTo(ServerConfigs, MaxServers)

IrcInit ==
  /\ clients = <<>>
  /\ multiServerChannels = <<>>
  /\ calibrated = TRUE

\* go(), ircConfig being what main.currentIrcConfig() returns: a client for
\* every configured server, then the calibration.
Go(ircConfig) ==
  LET created == [i \in 1..Len(ircConfig) |-> newClient(ircConfig[i])]
  IN  /\ clients' = clients \o created
      /\ multiServerChannels' = calibrateMultiServerChannels(clients')
      /\ calibrated' = TRUE

ConnectUnconnectedClients(ircConfig) ==
  /\ clients' = initiateUnconnected(clients, ircConfig, 1)
  /\ multiServerChannels' = calibrateMultiServerChannels(clients')
  /\ calibrated' = TRUE

\* The exported calibrateMultiServerChannels, called on its own.
CalibrateMultiServerChannels ==
  /\ multiServerChannels' = calibrateMultiServerChannels(clients)
  /\ calibrated' = TRUE
  /\ UNCHANGED clients

RemoveServer(serverName) ==
  LET i == findClientByServerName(clients, serverName)
  IN  /\ i # 0
      /\ clients' = SubSeq(clients, 1, i - 1) \o SubSeq(clients, i + 1, Len(clients))
      /\ calibrated' = FALSE
      /\ UNCHANGED multiServerChannels

(***************************************************************************)
(* The connection of a client (server/irc.js).  The IRC library is outside *)
(* the program: it emits "connect" when an attempt succeeds, "close" when  *)
(* a connection or an attempt ends, "abort" when it gives up retrying; it  *)
(* retries by itself after a close it was not asked for.  What disconnect()*)
(* does to an attempt that is under way is not the program's to decide:    *)
(* the attempt is cancelled, or it stays under way.                        *)
(***************************************************************************)
ConnStates == {"attempt", "open", "closing", "closed", "gaveup"}

\* The call handled in a step: an operation on a server, the listener of a
\* client of a server, or the request of a socket.
Call(op, server, result) ==
  [op |-> op, server |-> server, socket |-> "", result |-> result]

Request(op, socket) ==
  [op |-> op, server |-> "", socket |-> socket, result |-> ""]

NoCall == Call("", "", "")

Sockets == {"s1", "s2"}

NoToken == "null"

NoLogRun == [stage |-> "none"]

ViewerIdle ==
  /\ connectionToken = [s \in Sockets |-> NoToken]
  /\ recipients = [k \in ChannelUris \cup Senders \cup Categories |-> <<>>]
  /\ emitted = [s \in Sockets |-> <<>>]

OutIdle ==
  /\ transmitted = <<>>
  /\ incoming = <<>>

IoInit ==
  /\ lastCall = NoCall
  /\ logRun = NoLogRun
  /\ pending = {}
  /\ process = "running"
  /\ ViewerIdle
  /\ OutIdle

\* handleConnectionStateChange(client, state): the client with the state it
\* reports to main.handleIrcConnectionStateChange.
handleConnectionStateChange(client, state) ==
  [client EXCEPT !.state = IF client.aborted THEN "ABORTED" ELSE state]

abortClient(client) ==
  handleConnectionStateChange([client EXCEPT !.aborted = TRUE], "ABORTED")

\* Mutant: any client that exists is reconnected.
reconnectAcceptedAnyClient(cl, i) == i # 0

\* c && c._pyramidAborted (server/irc.js:450)
reconnectAccepted(cl, i) == i # 0 /\ cl[i].aborted

\* The "connect" listener: an attempt of the library has succeeded.
ConnectListener(i) ==
  /\ clients[i].conn = "attempt"
  /\ clients' = [clients EXCEPT ![i] =
       handleConnectionStateChange(
         [@ EXCEPT !.aborted = FALSE, !.conn = "open"], "CONNECTED")]
  /\ lastCall' = Call("connect", clients[i].name, "")
  /\ UNCHANGED <<multiServerChannels, calibrated>>

\* The "close" and "end" listeners: the connection is lost and the library
\* retries, an attempt fails and the library tries again, or the connection
\* that disconnect() has ended is closed.
CloseListener(i) ==
  /\ clients[i].conn \in {"open", "attempt", "closing"}
  /\ clients' = [clients EXCEPT ![i] =
       handleConnectionStateChange(
         [@ EXCEPT !.conn = IF @ = "closing" THEN "closed" ELSE "attempt"],
         "DISCONNECTED")]
  /\ lastCall' = Call("close", clients[i].name, "")
  /\ UNCHANGED <<multiServerChannels, calibrated>>

\* The "abort" listener: the library gave up reconnecting.
AbortListener(i) ==
  /\ clients[i].conn = "attempt"
  /\ clients' = [clients EXCEPT ![i] =
       handleConnectionStateChange([@ EXCEPT !.conn = "gaveup"], "FAILED")]
  /\ lastCall' = Call("abort", clients[i].name, "")
  /\ UNCHANGED <<multiServerChannels, calibrated>>

\* The clients after reconnectServer(serverName): c.connect() when accepted.
reconnected(cl, serverName) ==
  LET i == findClientByServerName(cl, serverName)
  IN  IF reconnectAccepted(cl, i)
        THEN [cl EXCEPT ![i] = [@ EXCEPT !.conn = "attempt", !.held = FALSE]]
        ELSE cl

ReconnectServer(serverName) ==
  /\ clients' = reconnected(clients, serverName)
  /\ lastCall' =
       Call("reconnectServer", serverName,
            IF reconnectAccepted(clients, findClientByServerName(clients, serverName))
              THEN "connect" ELSE "warn")
  /\ UNCHANGED <<multiServerChannels, calibrated>>

\* disconnectServer(serverName): abortClient, then the library's disconnect(),
\* stillUnderWay telling whether an attempt under way survives it.
DisconnectServer(serverName, stillUnderWay) ==
  LET i == findClientByServerName(clients, serverName)
  IN  /\ IF i # 0
           THEN clients' = [clients EXCEPT ![i] =
                  [abortClient(@) EXCEPT
                     !.held = TRUE,
                     !.conn = CASE @ = "open" -> "closing"
                                [] @ = "attempt" ->
                                     IF stillUnderWay THEN "attempt" ELSE "closed"
                                [] OTHER -> @]]
           ELSE UNCHANGED clients
      /\ lastCall' = Call("disconnectServer", serverName, "")
      /\ UNCHANGED <<multiServerChannels, calibrated>>

(***************************************************************************)
(* The relationship of a message author (irc.js, handleMessage).           *)
(***************************************************************************)
\* String.prototype.toLowerCase, on the names in use.
toLowerCase(s) == IF s = "Alice" THEN "alice" ELSE s

indexOf(list, x) == \E i \in 1..Len(list) : list[i] = x

nonPeople == <<>>

relationshipOf(from) ==
  LET allFriends == bestFriends \o friends
  IN  IF indexOf(allFriends, toLowerCase(from))
        THEN IF indexOf(bestFriends, toLowerCase(from))
               THEN RELATIONSHIP_BEST_FRIEND
               ELSE RELATIONSHIP_FRIEND
        ELSE RELATIONSHIP_NONE

FriendLists == SeqsUpTo(Senders, MaxFriends)

NoMessage == [username |-> "", relationship |-> RELATIONSHIP_NONE]

FriendIdle ==
  /\ bestFriends = <<>>
  /\ friends = <<>>
  /\ lastMessage = NoMessage

\* handleMessage(client, from, to, message, isAction), then emitMessage: the
\* message is cached with the relationship found.
HandleMessage(channel, from, highlightStrings) ==
  /\ ~indexOf(nonPeople, from)
  /\ lastMessage' = [username |-> from, relationship |-> relationshipOf(from)]
  /\ CacheMessage(channel, from, "msg", relationshipOf(from), highlightStrings)
  /\ UNCHANGED <<bestFriends, friends>>

(***************************************************************************)
(* The log lines (server/log.js).  A string is the sequence of its         *)
(* characters; a regular expression is matched as the engine matches it,   *)
(* greedily and giving back what the rest of the pattern needs.            *)
(***************************************************************************)
\* The characters in use: letters, "-", the user symbol "@", and the marks.
Letters == {"a", "d", "e", "h", "i", "j", "n", "o", "s"}

\* [@\+%!\.] of USERNAME_SYMBOL_RGXSTR
SymbolChars == {"@", "+", "%", "!", "."}

\* [A-Za-z0-9|\[\]{}\\_-] of USERNAME_SYMBOL_RGXSTR, on the characters in use
NameChars == Letters \cup {"-"}

WhiteSpace == {" ", "\t"}

AllChars == Letters \cup {"-", "@", " ", "<", ">", "*"}

\* [^\s\*]
NotSpaceNorStar == AllChars \ (WhiteSpace \cup {"*"})

\* A field the parser does not return.
Undefined == <<"undefined">>

\* The parser returns null.
NoMatch ==
  [matched |-> FALSE, type |-> "", symbol |-> Undefined,
   username |-> Undefined, message |-> Undefined]

\* String.prototype.substr(n)
substr(s, n) == SubSeq(s, n + 1, Len(s))

\* String.prototype.trim()
trim(s) ==
  IF \A k \in 1..Len(s) : s[k] \in WhiteSpace THEN <<>>
  ELSE LET first == CHOOSE k \in 1..Len(s) :
                      /\ s[k] \notin WhiteSpace
                      /\ \A j \in 1..(k - 1) : s[j] \in WhiteSpace
           last == CHOOSE k \in 1..Len(s) :
                     /\ s[k] \notin WhiteSpace
                     /\ \A j \in (k + 1)..Len(s) : s[j] \in WhiteSpace
       IN  SubSeq(s, first, last)

\* The number of characters of the class that s has in a row from position i
\* on (what class* takes when greedy).
Span(s, i, class) ==
  CHOOSE n \in 0..(Len(s) + 1 - i) :
    /\ \A k \in i..(i + n - 1) : s[k] \in class
    /\ (i + n > Len(s) \/ s[i + n] \notin class)

\* lineFormats.msg.build
msgBuild(symbol, username, message) ==
  <<"<">> \o symbol \o username \o <<">", " ">> \o message

\* lineFormats.msg.parse.  The pattern is written in a template literal, in
\* which \s is the letter s: ^<([@+%!.]*)([A-Za-z0-9|...]+)>s*
msgParse(line) ==
  LET a == Span(line, 2, SymbolChars)
      b == Span(line, 2 + a, NameChars)
      c == Span(line, 3 + a + b, {"s"})
  IN  IF /\ Len(line) >= 1
         /\ line[1] = "<"
         /\ b >= 1
         /\ 2 + a + b <= Len(line)
         /\ line[2 + a + b] = ">"
        THEN [matched |-> TRUE, type |-> "msg",
              symbol |-> SubSeq(line, 2, 1 + a),
              username |-> SubSeq(line, 2 + a, 1 + a + b),
              message |-> substr(line, 2 + a + b + c)]
        ELSE NoMatch

\* lineFormats.action.build
actionBuild(symbol, username, message) ==
  <<"*", " ">> \o symbol \o username \o <<" ">> \o message

\* lineFormats.action.parse: ^\*\s*([^\s\*]+)\s+
actionParse(line) ==
  LET w == Span(line, 2, WhiteSpace)
      u == Span(line, 2 + w, NotSpaceNorStar)
      v == Span(line, 2 + w + u, WhiteSpace)
  IN  IF /\ Len(line) >= 1
         /\ line[1] = "*"
         /\ u >= 1
         /\ v >= 1
        THEN [matched |-> TRUE, type |-> "action",
              symbol |-> Undefined,
              username |-> SubSeq(line, 2 + w, 1 + w + u),
              message |-> substr(line, 1 + w + u + v)]
        ELSE NoMatch

\* lineFormats.notice.build, for a username that is not empty
noticeBuild(symbol, username, message) ==
  <<"-">> \o symbol \o username \o <<"-", " ">> \o message

\* lineFormats.notice.parse: ^-([@+%!.]*)([A-Za-z0-9|...-]+)-s* ; the name
\* takes the "-" it can and gives back up to the last one; the username
\* returned is match[1].
noticeParse(line) ==
  LET a == Span(line, 2, SymbolChars)
      b == Span(line, 2 + a, NameChars)
      ends == {n \in 1..(b - 1) : line[2 + a + n] = "-"}
      n == CHOOSE m \in ends : \A k \in ends : k <= m
      c == Span(line, 3 + a + n, {"s"})
  IN  IF /\ Len(line) >= 1
         /\ line[1] = "-"
         /\ ends # {}
        THEN [matched |-> TRUE, type |-> "notice",
              symbol |-> Undefined,
              username |-> SubSeq(line, 2, 1 + a),
              message |-> substr(line, 2 + a + n + c)]
        ELSE NoMatch

\* lineFormats.join.build
joinBuild(symbol, username) ==
  <<"*", "*", " ">> \o symbol \o username \o <<" ", "j", "o", "i", "n", "e", "d">>

\* lineFormats.join.parse: ^\*\*\s*([^\s\*]+)\s+joined$ ; the message of the
\* object stays the line, as parseLogLine has set it.
joinParse(line) ==
  LET w == Span(line, 3, WhiteSpace)
      u == Span(line, 3 + w, NotSpaceNorStar)
      v == Span(line, 3 + w + u, WhiteSpace)
  IN  IF /\ Len(line) >= 2
         /\ line[1] = "*"
         /\ line[2] = "*"
         /\ u >= 1
         /\ v >= 1
         /\ substr(line, 2 + w + u + v) = <<"j", "o", "i", "n", "e", "d">>
        THEN [matched |-> TRUE, type |-> "join",
              symbol |-> Undefined,
              username |-> SubSeq(line, 3 + w, 2 + w + u),
              message |-> line]
        ELSE NoMatch

\* lineFormats[type].build
build(type, data) ==
  CASE type = "msg" -> msgBuild(data.symbol, data.username, data.message)
    [] type = "action" -> actionBuild(data.symbol, data.username, data.message)
    [] type = "notice" -> noticeBuild(data.symbol, data.username, data.message)
    [] type = "join" -> joinBuild(data.symbol, data.username)

\* lineFormats[type].parse
parse(type, line) ==
  CASE type = "msg" -> msgParse(line)
    [] type = "action" -> actionParse(line)
    [] type = "notice" -> noticeParse(line)
    [] type = "join" -> joinParse(line)

\* Object.keys(lineFormats), the kinds modelled, in their order.
lineTypes == <<"msg", "action", "notice", "join">>

\* parseLogLine(line), for a line without channel and time in brackets (no
\* line built here starts with "["): the first kind that parses the
\* trimmed line, null when none does.
parseLogLine(line) ==
  LET innerLine == trim(line)
      hits == {i \in 1..Len(lineTypes) : parse(lineTypes[i], innerLine).matched}
  IN  IF hits = {} THEN NoMatch
      ELSE parse(lineTypes[CHOOSE i \in hits : \A j \in hits : i <= j], innerLine)

LogSymbols == {<<>>, <<"@">>}

LogUsernames == {<<"a">>, <<"s", "a">>, <<"a", "-", "a">>}

LogMessages == {<<"h", "i">>, <<"s", "o">>, <<"h", "i", " ", "a">>}

LogInputs ==
  {[stage |-> "data", type |-> t, data |-> d, line |-> <<>>, obj |-> NoMatch] :
     t \in SeqToSet(lineTypes),
     d \in [symbol : LogSymbols, username : LogUsernames, message : LogMessages]}

\* The line is built from the data.
BuildLogLine ==
  /\ logRun.stage = "data"
  /\ logRun' = [logRun EXCEPT !.stage = "built",
                              !.line = build(logRun.type, logRun.data)]
  /\ UNCHANGED <<pending, process>>

\* The line is read back.
ParseLogLine ==
  /\ logRun.stage = "built"
  /\ logRun' = [logRun EXCEPT !.stage = "parsed",
                              !.obj = parseLogLine(logRun.line)]
  /\ UNCHANGED <<pending, process>>

(***************************************************************************)
(* The recipients and what is emitted to them (io module, part_000).  An   *)
(* event is told by its name, the key it is about and the line it carries. *)
(***************************************************************************)
event(name, key, lineId) == [name |-> name, key |-> key, lineId |-> lineId]

NothingEmitted == [s \in Sockets |-> <<>>]

\* Mutant: the first socket of the list is passed over.
emitEventToRecipientsButFirst(out, list, ev) ==
  [s \in Sockets |->
     out[s] \o [i \in 1..Cardinality({j \in 2..Len(list) : list[j] = s}) |-> ev]]

\* emitEventToRecipients(list, eventName, eventData): every socket of the
\* list is sent the event, once for each time the list holds it; out is what
\* the step has emitted so far.
emitEventToRecipients(out, list, ev) ==
  [s \in Sockets |->
     out[s] \o [i \in 1..Cardinality({j \in 1..Len(list) : list[j] = s}) |-> ev]]

\* io.emit: every socket is sent the event.
emitToAll(out, ev) == [s \in Sockets |-> Append(out[s], ev)]

\* Mutant: the socket is pushed whether or not the list holds it.
addRecipientAgain(list, socket) == Append(list, socket)

\* addRecipient(list, targetName, socket)
addRecipient(list, socket) ==
  IF socket \in SeqToSet(list) THEN list ELSE Append(list, socket)

\* removeRecipient(list, targetName, socket)
removeRecipient(list, socket) == SelectSeq(list, LAMBDA r : r # socket)

\* What cacheChannelEvent, and the replacement of a tail by a bunch, emit.
channelEventEmitted(channel, id) ==
  emitEventToRecipients(NothingEmitted, recipients[channel],
                        event("channelEvent", channel, id))

\* What cacheMessage emits, in its order: the channel event, the highlights
\* cache when the channel has open highlights, the friend's line to the
\* user's and to the "allfriends" recipients, the highlight to the
\* "highlights" recipients and, to every socket, the new highlight and the
\* unseen highlights.
cacheMessageEmitted(channel, username, relationship, highlightStrings, id) ==
  LET e1 == channelEventEmitted(channel, id)
      e2 == IF currentHighlightContexts[channel] # <<>>
              THEN emitEventToRecipients(e1, recipients["highlights"],
                                         event("categoryCache", "highlights", 0))
              ELSE e1
      e3 == IF friendTier(relationship)
              THEN emitEventToRecipients(
                     emitEventToRecipients(e2, recipients[username],
                                           event("listEvent", username, id)),
                     recipients["allfriends"],
                     event("listEvent", "allfriends", id))
              ELSE e2
  IN  IF Len(highlightStrings) > 0
        THEN emitToAll(
               emitToAll(
                 emitEventToRecipients(e3, recipients["highlights"],
                                       event("listEvent", "highlights", id)),
                 event("newHighlight", "", id)),
               event("unseenHighlights", "", 0))
        ELSE e3

\* cacheMessage with its emissions.
CacheMessageAndEmit(channel, username, type, relationship, highlightStrings) ==
  /\ CacheMessage(channel, username, type, relationship, highlightStrings)
  /\ emitted' = cacheMessageEmitted(channel, username, relationship,
                                    highlightStrings, nextLineId)
  /\ UNCHANGED <<connectionToken, recipients>>

\* Mutant: the arriving event is emitted where the bunch that took the
\* tail's place should be.
CacheBunchableChannelEventAndEmitRaw(channel, type, username) ==
  /\ CacheBunchableChannelEvent(channel, type, username)
  /\ emitted' = channelEventEmitted(channel, nextLineId)
  /\ UNCHANGED <<connectionToken, recipients>>

\* cacheBunchableChannelEvent with its emission: the event, or the bunch
\* that replaces the tail.
CacheBunchableChannelEventAndEmit(channel, type, username) ==
  /\ CacheBunchableChannelEvent(channel, type, username)
  /\ emitted' = channelEventEmitted(channel, Last(channelCaches'[channel]).lineId)
  /\ UNCHANGED <<connectionToken, recipients>>

\* cacheChannelEvent with its emission.
CacheChannelEventAndEmit(channel, type) ==
  /\ CacheChannelEvent(channel, type)
  /\ emitted' = channelEventEmitted(channel, nextLineId)
  /\ UNCHANGED <<connectionToken, recipients>>

(***************************************************************************)
(* Outgoing messages (server/irc.js, sendOutgoingMessage).                 *)
(***************************************************************************)
\* util.channelServerNameFromUrl, on the channel URIs in use.
channelServerNameFromUrl(channelUri) ==
  CASE channelUri = "alpha/x" -> "alpha"
    [] channelUri = "beta/x" -> "beta"
    [] channelUri = "gamma/x" -> "gamma"
    [] OTHER -> ""

\* util.channelNameFromUrl(channelUri, "#")
channelNameFromUrl(channelUri) ==
  IF channelUri \in {"alpha/x", "beta/x", "gamma/x"} THEN "#x" ELSE ""

\* Mutant: the URI of a channel is made of its name alone.
getChannelUriNameOnly(chobj) ==
  IF chobj.channel = "#x" THEN "alpha/x" ELSE "alpha/y"

\* getChannelUri(chobj): util.getChannelUri(chobj.channel, chobj.server)
getChannelUri(chobj) ==
  CASE chobj.server = "alpha" /\ chobj.channel = "#x" -> "alpha/x"
    [] chobj.server = "beta" /\ chobj.channel = "#x" -> "beta/x"
    [] chobj.server = "alpha" /\ chobj.channel = "#y" -> "alpha/y"
    [] chobj.server = "beta" /\ chobj.channel = "#y" -> "beta/y"

\* channelObject(client, channel)
channelObject(client, channel) == [server |-> client.name, channel |-> channel]

\* handleIncomingMessage(client, username, channel, type, message): the
\* message of a user without relationship, with no highlight, is cached
\* under the URI of the client's channel.
IncomingMessage(i, channel, username) ==
  /\ CacheMessageAndEmit(getChannelUri(channelObject(clients[i], channel)),
                         username, "msg", RELATIONSHIP_NONE, <<>>)
  /\ lastCall' = Call("message", clients[i].name, "")
  /\ incoming' = <<>>
  /\ transmitted' = <<>>
  /\ UNCHANGED ircVars

\* handleIncomingEvent(client, channel, type, data), type a low-signal one.
IncomingEvent(i, channel, type, username) ==
  /\ CacheBunchableChannelEventAndEmit(
       getChannelUri(channelObject(clients[i], channel)), type, username)
  /\ lastCall' = Call(type, clients[i].name, "")
  /\ incoming' = <<>>
  /\ transmitted' = <<>>
  /\ UNCHANGED ircVars

\* What main.handleIrcConnectionStateChange(server, state) does with the
\* state a client reports: a connectionEvent line in the channel of the
\* server (a server has one channel where this is used).
ConnectionEvent(i) ==
  /\ CacheChannelEventAndEmit(
       getChannelUri(channelObject(clients[i], clients[i].channels[1])),
       "connectionEvent")
  /\ incoming' = <<>>
  /\ transmitted' = <<>>

\* The length of what /^\/me\s+/ matches at the head of the message, 0 when
\* it does not match.
meRegexMatch(message) ==
  IF /\ Len(message) >= 4
     /\ SubSeq(message, 1, 3) = <<"/", "m", "e">>
     /\ message[4] \in WhiteSpace
    THEN 3 + Span(message, 4, WhiteSpace)
    ELSE 0

\* Mutant: the prefix is left in the text of the action.
outgoingPrefixKept(message, isAction) ==
  IF ~isAction /\ meRegexMatch(message) > 0
    THEN [isAction |-> TRUE, message |-> message]
    ELSE [isAction |-> isAction, message |-> message]

\* The message and its kind after the "/me" test (server/irc.js:109-113).
outgoing(message, isAction) ==
  IF ~isAction /\ meRegexMatch(message) > 0
    THEN [isAction |-> TRUE, message |-> substr(message, meRegexMatch(message))]
    ELSE [isAction |-> isAction, message |-> message]

\* Mutant: the echo is authored by the channel's name.
echoedAsChannel(client, channelName, type, message) ==
  [channel |-> getChannelUri(channelObject(client, channelName)),
   username |-> channelName, type |-> type, message |-> message]

\* handleIncomingMessage(client, client.nick, channelName, type, message,
\* {}, true): what main.handleIncomingMessage is called with.
echoed(client, channelName, type, message) ==
  [channel |-> getChannelUri(channelObject(client, channelName)),
   username |-> client.nick, type |-> type, message |-> message]

\* sendOutgoingMessage(channelUri, message, isAction): the command sent to
\* IRC, then the message handled as if it were incoming - it is one of the
\* session's own nick, cached as a line of no relationship and no highlight.
SendOutgoing(channelUri, message, isAction) ==
  LET serverName == channelServerNameFromUrl(channelUri)
      channelName == channelNameFromUrl(channelUri)
      i == findClientByServerName(clients, serverName)
      out == outgoing(message, isAction)
      type == IF out.isAction THEN "action" ELSE "msg"
      echo == echoed(clients[i], channelName, type, out.message)
  IN  IF serverName # "" /\ channelName # "" /\ i # 0
        THEN /\ transmitted' =
                  <<[server |-> clients[i].name,
                     command |-> IF out.isAction THEN "action" ELSE "say",
                     channel |-> channelName, message |-> out.message]>>
             /\ incoming' = <<echo>>
             /\ CacheMessageAndEmit(echo.channel, echo.username, type,
                                    RELATIONSHIP_NONE, <<>>)
        ELSE /\ transmitted' = <<>>
             /\ incoming' = <<>>
             /\ emitted' = NothingEmitted
             /\ UNCHANGED <<cacheVars, connectionToken, recipients>>

\* The call with what it was given and what it returned.
SendOutgoingMessage(channelUri, message, isAction) ==
  /\ SendOutgoing(channelUri, message, isAction)
  /\ lastCall' =
       [op |-> "sendOutgoingMessage",
        server |-> channelServerNameFromUrl(channelUri), socket |-> "",
        result |-> IF Len(transmitted') > 0 THEN "true" ELSE "false",
        channelUri |-> channelUri, message |-> message, isAction |-> isAction]
  /\ UNCHANGED ircVars

(***************************************************************************)
(* The requests of the sockets (io module, part_000).                      *)
(***************************************************************************)
AcceptedTokens == {"good"}

TokenInputs == {"good", "bad"}

\* Mutant: a socket that has presented any token is accepted.
isAnAcceptedTokenAny(token) == token # NoToken

\* tokenUtils.isAnAcceptedToken
isAnAcceptedToken(token) == token \in AcceptedTokens

\* Nothing is sent to IRC and nothing is fed to the pipeline.
OutQuiet ==
  /\ transmitted' = <<>>
  /\ incoming' = <<>>

\* The handler returns at once.
Ignored ==
  /\ emitted' = NothingEmitted
  /\ OutQuiet
  /\ UNCHANGED <<cacheVars, ircVars, connectionToken, recipients>>

\* socket.on("token")
Token(socket, token) ==
  /\ connectionToken' = [connectionToken EXCEPT ![socket] = token]
  /\ emitted' = [NothingEmitted EXCEPT ![socket] =
       <<event("tokenStatus",
               IF isAnAcceptedToken(token) THEN "accepted" ELSE "rejected", 0)>>]
  /\ lastCall' = Request("token", socket)
  /\ OutQuiet
  /\ UNCHANGED <<cacheVars, ircVars, recipients>>

\* socket.on("requestChannelCache"), "requestUserCache", "requestCategoryCache"
RequestCache(socket, key) ==
  /\ lastCall' = Request("requestCache", socket)
  /\ IF ~isAnAcceptedToken(connectionToken[socket]) THEN Ignored
     ELSE /\ emitted' = [NothingEmitted EXCEPT ![socket] =
               <<event("cache", key, 0)>>]
          /\ OutQuiet
          /\ UNCHANGED <<cacheVars, ircVars, connectionToken, recipients>>

\* socket.on("subscribe"): the socket joins the recipients of the key and is
\* sent the cache (with the user list and the data of a channel).
Subscribe(socket, key) ==
  /\ lastCall' = Request("subscribe", socket)
  /\ IF ~isAnAcceptedToken(connectionToken[socket]) THEN Ignored
     ELSE /\ recipients' = [recipients EXCEPT ![key] = addRecipient(@, socket)]
          /\ emitted' = [NothingEmitted EXCEPT ![socket] =
               IF key \in ChannelUris
                 THEN <<event("cache", key, 0), event("channelUserList", key, 0),
                        event("channelData", key, 0)>>
                 ELSE <<event("cache", key, 0)>>]
          /\ OutQuiet
          /\ UNCHANGED <<cacheVars, ircVars, connectionToken>>

\* socket.on("unsubscribe")
Unsubscribe(socket, key) ==
  /\ lastCall' = Request("unsubscribe", socket)
  /\ IF ~isAnAcceptedToken(connectionToken[socket]) THEN Ignored
     ELSE /\ recipients' = [recipients EXCEPT ![key] = removeRecipient(@, socket)]
          /\ emitted' = NothingEmitted
          /\ OutQuiet
          /\ UNCHANGED <<cacheVars, ircVars, connectionToken>>

\* Mutant: every unseen highlight is taken as seen.
seenAll(ids, messageId) == {}

\* unseenHighlights.reportHighlightAsSeen(messageId): the unseen ids after it.
seen(ids, messageId) == ids \ {messageId}

\* socket.on("reportHighlightAsSeen"); the id asked for is kept with the
\* request.
ReportHighlightAsSeen(socket, messageId) ==
  /\ lastCall' = [Request("reportHighlightAsSeen", socket)
                    EXCEPT !.result = messageId]
  /\ IF ~isAnAcceptedToken(connectionToken[socket]) THEN Ignored
     ELSE /\ unseenHighlightIds' = seen(unseenHighlightIds, messageId)
          /\ emitted' = NothingEmitted
          /\ OutQuiet
          /\ UNCHANGED <<channelCaches, userCaches, categoryCaches,
                         currentHighlightContexts, contextMessages,
                         bunchableLinesToInsert, lineIdsToDelete, cacheLines,
                         nextLineId, history, run>>
          /\ UNCHANGED <<ircVars, connectionToken, recipients>>

\* socket.on("clearUnseenHighlights")
ClearUnseenHighlights(socket) ==
  /\ lastCall' = Request("clearUnseenHighlights", socket)
  /\ IF ~isAnAcceptedToken(connectionToken[socket]) THEN Ignored
     ELSE /\ unseenHighlightIds' = {}
          /\ emitted' = NothingEmitted
          /\ OutQuiet
          /\ UNCHANGED <<channelCaches, userCaches, categoryCaches,
                         currentHighlightContexts, contextMessages,
                         bunchableLinesToInsert, lineIdsToDelete, cacheLines,
                         nextLineId, history, run>>
          /\ UNCHANGED <<ircVars, connectionToken, recipients>>

\* socket.on("sendMessage"): the command carries a token of its own.
SendMessage(socket, channel, message, token) ==
  /\ lastCall' = Request("sendMessage", socket)
  /\ IF ~isAnAcceptedToken(connectionToken[socket]) THEN Ignored
     ELSE IF ~isAnAcceptedToken(token) THEN Ignored
     ELSE /\ SendOutgoing(channel, message, FALSE)
          /\ UNCHANGED ircVars

\* socket.on("reconnectToIrcServer")
ReconnectToIrcServer(socket, name) ==
  /\ lastCall' = Request("reconnectToIrcServer", socket)
  /\ IF ~isAnAcceptedToken(connectionToken[socket]) THEN Ignored
     ELSE /\ clients' = reconnected(clients, name)
          /\ emitted' = NothingEmitted
          /\ OutQuiet
          /\ UNCHANGED <<cacheVars, multiServerChannels, calibrated,
                         connectionToken, recipients>>

\* socket.on("setAppConfigValue"), for the key "cacheLines"; the socket is
\* sent the configuration.
SetAppConfigValue(socket, value) ==
  /\ lastCall' = Request("setAppConfigValue", socket)
  /\ IF ~isAnAcceptedToken(connectionToken[socket]) THEN Ignored
     ELSE /\ SetCacheLines(value)
          /\ emitted' = [NothingEmitted EXCEPT ![socket] =
               <<event("appConfig", "", 0)>>]
          /\ OutQuiet
          /\ UNCHANGED <<ircVars, connectionToken, recipients>>

\* Mutant: the handler of the earlier revision (server/io.js:200-202), which
\* writes "Someone disconnected!" to the console and leaves the lists alone.
SocketDisconnectLogged(socket) ==
  /\ lastCall' = Request("disconnect", socket)
  /\ connectionToken' = [connectionToken EXCEPT ![socket] = NoToken]
  /\ emitted' = NothingEmitted
  /\ OutQuiet
  /\ UNCHANGED <<cacheVars, ircVars, recipients>>

\* socket.on("disconnect"): removeRecipientEverywhere(socket); a socket that
\* connects next starts without a token.
SocketDisconnect(socket) ==
  /\ lastCall' = Request("disconnect", socket)
  /\ recipients' = [k \in DOMAIN recipients |-> removeRecipient(recipients[k], socket)]
  /\ connectionToken' = [connectionToken EXCEPT ![socket] = NoToken]
  /\ emitted' = NothingEmitted
  /\ OutQuiet
  /\ UNCHANGED <<cacheVars, ircVars>>

(***************************************************************************)
(* Spec: the whole cache engine, with the capacity changing at run time.   *)
(***************************************************************************)
Init == CacheInit /\ IrcInit /\ FriendIdle /\ IoInit

Next ==
  \/ /\ nextLineId <= MaxLineIds
     /\ \E c \in Channels, u \in Users, r \in RelationshipInputs, h \in HighlightInputs :
          CacheMessage(c, u, "msg", r, h)
     /\ UNCHANGED <<ircVars, friendVars, ioVars>>
  \/ /\ nextLineId <= MaxLineIds
     /\ \E c \in Channels : CacheChannelEvent(c, "connectionEvent")
     /\ UNCHANGED <<ircVars, friendVars, ioVars>>
  \/ /\ nextLineId + 1 <= MaxLineIds
     /\ \E c \in Channels, t \in EventTypeInputs, u \in Users :
          CacheBunchableChannelEvent(c, t, u)
     /\ UNCHANGED <<ircVars, friendVars, ioVars>>
  \/ (\E v \in CacheLinesInputs : SetCacheLines(v))
     /\ UNCHANGED <<ircVars, friendVars, ioVars>>
  \/ ScheduledBunchableStore /\ UNCHANGED <<ircVars, friendVars, ioVars>>
  \/ ScheduledLineDelete /\ UNCHANGED <<ircVars, friendVars, ioVars>>

Spec == Init /\ [][Next]_vars

(***************************************************************************)
(* SpecBunch: low-signal events in a row, and messages between them.       *)
(***************************************************************************)
NextBunch ==
  \/ /\ nextLineId + 1 <= MaxBunchLineIds
     /\ \E c \in Channels, t \in EventTypeInputs, u \in Users :
          CacheBunchableChannelEvent(c, t, u)
     /\ UNCHANGED <<ircVars, friendVars, ioVars>>
  \/ /\ nextLineId <= MaxBunchLineIds
     /\ \E c \in Channels, u \in Users :
          CacheMessage(c, u, "msg", RELATIONSHIP_NONE, <<>>)
     /\ UNCHANGED <<ircVars, friendVars, ioVars>>

SpecBunch == Init /\ [][NextBunch]_vars

(***************************************************************************)
(* SpecContext: highlights and the records that follow them.               *)
(***************************************************************************)
NextContext ==
  \/ /\ nextLineId <= MaxContextLineIds
     /\ \E c \in Channels, u \in Users, h \in HighlightInputs :
          CacheMessage(c, u, "msg", RELATIONSHIP_NONE, h)
     /\ UNCHANGED <<ircVars, friendVars, ioVars>>
  \/ /\ nextLineId + 1 <= MaxContextLineIds
     /\ \E c \in Channels, u \in Users : CacheBunchableChannelEvent(c, "join", u)
     /\ UNCHANGED <<ircVars, friendVars, ioVars>>

SpecContext == Init /\ [][NextContext]_vars

(***************************************************************************)
(* SpecChannels: the clients come and go, the channels are calibrated.     *)
(***************************************************************************)
\* What is kept of a loaded configuration with the call that used it.
namesOf(ircConfig) == IF distinctNames(ircConfig) THEN "distinct" ELSE "repeated"

NextChannels ==
  \/ (\E ircConfig \in IrcConfigs :
        /\ Len(clients) + Len(ircConfig) <= MaxClients
        /\ Go(ircConfig)
        /\ lastCall' = Call("go", "", namesOf(ircConfig)))
     /\ UNCHANGED <<cacheVars, friendVars, logVars, viewerVars, outVars>>
  \/ (\E ircConfig \in IrcConfigs :
        /\ Len(clients) + Len(ircConfig) <= MaxClients
        /\ ConnectUnconnectedClients(ircConfig)
        /\ lastCall' = Call("connectUnconnectedClients", "", namesOf(ircConfig)))
     /\ UNCHANGED <<cacheVars, friendVars, logVars, viewerVars, outVars>>
  \/ /\ CalibrateMultiServerChannels
     /\ lastCall' = Call("calibrateMultiServerChannels", "", "")
     /\ UNCHANGED <<cacheVars, friendVars, logVars, viewerVars, outVars>>
  \/ (\E s \in ServerNames :
        /\ RemoveServer(s)
        /\ lastCall' = Call("removeServer", s, ""))
     /\ UNCHANGED <<cacheVars, friendVars, logVars, viewerVars, outVars>>

SpecChannels == Init /\ [][NextChannels]_vars

(***************************************************************************)
(* SpecConnection: two servers are started; their connections come and go, *)
(* the operator disconnects and reconnects them.                           *)
(***************************************************************************)
StartedConfig ==
  <<[name |-> "alpha", channels |-> <<"x">>],
    [name |-> "beta", channels |-> <<"x">>]>>

NextConnection ==
  \/ /\ clients = <<>>
     /\ Go(StartedConfig)
     /\ lastCall' = NoCall
     /\ UNCHANGED <<cacheVars, friendVars, logVars, viewerVars, outVars>>
  \/ (\E i \in 1..Len(clients) : ConnectListener(i))
     /\ UNCHANGED <<cacheVars, friendVars, logVars, viewerVars, outVars>>
  \/ (\E i \in 1..Len(clients) : CloseListener(i))
     /\ UNCHANGED <<cacheVars, friendVars, logVars, viewerVars, outVars>>
  \/ (\E i \in 1..Len(clients) : AbortListener(i))
     /\ UNCHANGED <<cacheVars, friendVars, logVars, viewerVars, outVars>>
  \/ (\E s \in ServerNames : ReconnectServer(s))
     /\ UNCHANGED <<cacheVars, friendVars, logVars, viewerVars, outVars>>
  \/ (\E s \in ServerNames, b \in BOOLEAN : DisconnectServer(s, b))
     /\ UNCHANGED <<cacheVars, friendVars, logVars, viewerVars, outVars>>
  \/ (\E s \in ServerNames :
        /\ RemoveServer(s)
        /\ lastCall' = Call("removeServer", s, ""))
     /\ UNCHANGED <<cacheVars, friendVars, logVars, viewerVars, outVars>>

SpecConnection == Init /\ [][NextConnection]_vars

(***************************************************************************)
(* SpecServers: two servers with a channel of the same name; messages and  *)
(* events arrive, the connections change, a viewer subscribes.             *)
(***************************************************************************)
\* The viewer that subscribes while the servers are at work.
ServerViewers == {"s1"}

NextServers ==
  \/ /\ clients = <<>>
     /\ Go(StartedConfig)
     /\ lastCall' = NoCall
     /\ UNCHANGED <<cacheVars, friendVars, logVars, viewerVars, outVars>>
  \/ (\E socket \in ServerViewers : Token(socket, "good"))
     /\ UNCHANGED <<friendVars, logVars>>
  \/ (\E socket \in ServerViewers, channel \in ChannelUris :
        Subscribe(socket, channel))
     /\ UNCHANGED <<friendVars, logVars>>
  \/ /\ nextLineId <= MaxServerLineIds
     /\ \E i \in 1..Len(clients), u \in Users : IncomingMessage(i, "#x", u)
     /\ UNCHANGED <<friendVars, logVars>>
  \/ /\ nextLineId + 1 <= MaxServerLineIds
     /\ \E i \in 1..Len(clients), u \in Users : IncomingEvent(i, "#x", "join", u)
     /\ UNCHANGED <<friendVars, logVars>>
  \/ /\ nextLineId <= MaxServerLineIds
     /\ \E i \in 1..Len(clients) : ConnectListener(i) /\ ConnectionEvent(i)
     /\ UNCHANGED <<friendVars, logVars>>
  \/ /\ nextLineId <= MaxServerLineIds
     /\ \E i \in 1..Len(clients) : CloseListener(i) /\ ConnectionEvent(i)
     /\ UNCHANGED <<friendVars, logVars>>
  \/ /\ nextLineId <= MaxServerLineIds
     /\ \E i \in 1..Len(clients), b \in BOOLEAN :
          DisconnectServer(clients[i].name, b) /\ ConnectionEvent(i)
     /\ UNCHANGED <<friendVars, logVars>>
  \/ /\ nextLineId <= MaxServerLineIds
     /\ \E i \in 1..Len(clients) :
          /\ findClientByServerName(clients, clients[i].name) = i
          /\ RemoveServer(clients[i].name)
          /\ ConnectionEvent(i)
          /\ lastCall' = Call("removeServer", clients[i].name, "")
     /\ UNCHANGED <<friendVars, logVars>>

SpecServers == Init /\ [][NextServers]_vars

(***************************************************************************)
(* SpecRequests: two sockets present tokens and make every kind of         *)
(* request, while a server is started, disconnected, and heard from.       *)
(***************************************************************************)
\* A step the sockets have no part in emits nothing to them.
NoRequest ==
  /\ emitted' = NothingEmitted
  /\ OutQuiet
  /\ UNCHANGED <<connectionToken, recipients>>

NextRequests ==
  \/ /\ clients = <<>>
     /\ Go(StartedConfig)
     /\ lastCall' = NoCall
     /\ NoRequest
     /\ UNCHANGED <<cacheVars, friendVars, logVars>>
  \/ /\ DisconnectServer("alpha", FALSE)
     /\ NoRequest
     /\ UNCHANGED <<cacheVars, friendVars, logVars>>
  \/ /\ nextLineId <= MaxRequestLineIds
     /\ \E u \in Users : CacheMessageAndEmit("alpha/x", u, "msg",
                                              RELATIONSHIP_NONE, <<"me">>)
     /\ lastCall' = Call("message", "alpha", "")
     /\ OutQuiet
     /\ UNCHANGED <<ircVars, friendVars, logVars>>
  \/ (\E socket \in Sockets, token \in TokenInputs : Token(socket, token))
     /\ UNCHANGED <<friendVars, logVars>>
  \/ (\E socket \in Sockets : RequestCache(socket, "alpha/x"))
     /\ UNCHANGED <<friendVars, logVars>>
  \/ (\E socket \in Sockets : Subscribe(socket, "alpha/x"))
     /\ UNCHANGED <<friendVars, logVars>>
  \/ (\E socket \in Sockets : Unsubscribe(socket, "alpha/x"))
     /\ UNCHANGED <<friendVars, logVars>>
  \/ (\E socket \in Sockets, id \in 1..MaxRequestLineIds :
        ReportHighlightAsSeen(socket, id))
     /\ UNCHANGED <<friendVars, logVars>>
  \/ (\E socket \in Sockets : ClearUnseenHighlights(socket))
     /\ UNCHANGED <<friendVars, logVars>>
  \/ /\ nextLineId <= MaxRequestLineIds
     /\ \E socket \in Sockets, token \in TokenInputs :
          SendMessage(socket, "alpha/x", <<"h", "i">>, token)
     /\ UNCHANGED <<friendVars, logVars>>
  \/ (\E socket \in Sockets : ReconnectToIrcServer(socket, "alpha"))
     /\ UNCHANGED <<friendVars, logVars>>
  \/ (\E socket \in Sockets : SetAppConfigValue(socket, MinCacheLines))
     /\ UNCHANGED <<friendVars, logVars>>
  \/ (\E socket \in Sockets : SocketDisconnect(socket))
     /\ UNCHANGED <<friendVars, logVars>>

SpecRequests == Init /\ [][NextRequests]_vars

(***************************************************************************)
(* SpecViewers: two accepted sockets subscribe to a channel, a user and a  *)
(* category and leave again, while records arrive.                         *)
(***************************************************************************)
SubscriptionKeys == {"alpha/x", "alice", "highlights"}

NextViewers ==
  \/ (\E socket \in Sockets : Token(socket, "good"))
     /\ UNCHANGED <<friendVars, logVars>>
  \/ (\E socket \in Sockets, key \in SubscriptionKeys : Subscribe(socket, key))
     /\ UNCHANGED <<friendVars, logVars>>
  \/ (\E socket \in Sockets, key \in SubscriptionKeys : Unsubscribe(socket, key))
     /\ UNCHANGED <<friendVars, logVars>>
  \/ (\E socket \in Sockets : SocketDisconnect(socket))
     /\ UNCHANGED <<friendVars, logVars>>
  \/ /\ nextLineId <= MaxViewerLineIds
     /\ \E u \in Users, r \in RelationshipInputs, h \in HighlightInputs :
          CacheMessageAndEmit("alpha/x", u, "msg", r, h)
     /\ lastCall' = Call("message", "alpha", "")
     /\ OutQuiet
     /\ UNCHANGED <<ircVars, friendVars, logVars>>
  \/ /\ nextLineId <= MaxViewerLineIds
     /\ CacheChannelEventAndEmit("alpha/x", "connectionEvent")
     /\ lastCall' = Call("connectionEvent", "alpha", "")
     /\ OutQuiet
     /\ UNCHANGED <<ircVars, friendVars, logVars>>

SpecViewers == Init /\ [][NextViewers]_vars

(***************************************************************************)
(* SpecUnseen: highlights arrive and are evicted, events are bunched, the  *)
(* capacity is lowered, and a viewer comes, acknowledges and goes.         *)
(***************************************************************************)
UnseenViewers == {"s1"}

NextUnseen ==
  \/ /\ nextLineId <= MaxUnseenLineIds
     /\ \E u \in Users, h \in HighlightInputs :
          CacheMessageAndEmit("alpha/x", u, "msg", RELATIONSHIP_NONE, h)
     /\ lastCall' = Call("message", "alpha", "")
     /\ OutQuiet
     /\ UNCHANGED <<ircVars, friendVars, logVars>>
  \/ /\ nextLineId + 1 <= MaxUnseenLineIds
     /\ \E u \in Users : CacheBunchableChannelEventAndEmit("alpha/x", "join", u)
     /\ lastCall' = Call("join", "alpha", "")
     /\ OutQuiet
     /\ UNCHANGED <<ircVars, friendVars, logVars>>
  \/ (\E socket \in UnseenViewers : Token(socket, "good"))
     /\ UNCHANGED <<friendVars, logVars>>
  \/ (\E socket \in UnseenViewers : Subscribe(socket, "highlights"))
     /\ UNCHANGED <<friendVars, logVars>>
  \/ (\E socket \in UnseenViewers : SetAppConfigValue(socket, MinCacheLines))
     /\ UNCHANGED <<friendVars, logVars>>
  \/ (\E socket \in UnseenViewers, id \in 1..MaxUnseenLineIds :
        ReportHighlightAsSeen(socket, id))
     /\ UNCHANGED <<friendVars, logVars>>
  \/ (\E socket \in UnseenViewers : ClearUnseenHighlights(socket))
     /\ UNCHANGED <<friendVars, logVars>>
  \/ (\E socket \in UnseenViewers : SocketDisconnect(socket))
     /\ UNCHANGED <<friendVars, logVars>>

SpecUnseen == Init /\ [][NextUnseen]_vars

(***************************************************************************)
(* SpecOutgoing: two servers are started and messages are sent out, to     *)
(* their channels, to a server that is not there and to no server.         *)
(***************************************************************************)
OutgoingUris == {"alpha/x", "beta/x", "gamma/x", "x"}

OutgoingMessages ==
  {<<"h", "i">>,
   <<"/", "m", "e", " ", "h", "i">>,
   <<"/", "m", "e", " ", " ", "h", "i">>,
   <<"/", "m", "e", "\t", "h", "i">>,
   <<"/", "m", "e", "h", "i">>}

NextOutgoing ==
  \/ /\ clients = <<>>
     /\ Go(StartedConfig)
     /\ lastCall' = NoCall
     /\ NoRequest
     /\ UNCHANGED <<cacheVars, friendVars, logVars>>
  \/ /\ nextLineId <= MaxOutgoingLineIds
     /\ \E channelUri \in OutgoingUris, message \in OutgoingMessages,
           isAction \in BOOLEAN :
          SendOutgoingMessage(channelUri, message, isAction)
     /\ UNCHANGED <<friendVars, logVars>>

SpecOutgoing == Init /\ [][NextOutgoing]_vars

(***************************************************************************)
(* SpecFlush: bunches supersede lines while the periodic flushes run.      *)
(***************************************************************************)
\* The batch handed to db.deleteLinesWithLineIds by the step, if any.
DeleteCall(lineIds) ==
  [op |-> "db.deleteLinesWithLineIds", server |-> "", socket |-> "",
   result |-> "", lineIds |-> lineIds]

\* Mutant: the set is cleared, and one of its ids is left out of the batch.
FlushLineDeleteButOne ==
  /\ ScheduledLineDelete
  /\ \E lineId \in lineIdsToDelete :
       lastCall' = DeleteCall(lineIdsToDelete \ {lineId})
  /\ UNCHANGED <<ircVars, friendVars, logVars, viewerVars, outVars>>

\* _scheduledLineDelete, with the batch it hands to the database: the timer
\* callback runs to its end before any other event is handled.
FlushLineDelete ==
  /\ ScheduledLineDelete
  /\ lastCall' = DeleteCall(lineIdsToDelete)
  /\ UNCHANGED <<ircVars, friendVars, logVars, viewerVars, outVars>>

NextFlush ==
  \/ /\ nextLineId + 1 <= MaxFlushLineIds
     /\ \E c \in Channels, t \in EventTypeInputs, u \in Users :
          /\ CacheBunchableChannelEvent(c, t, u)
          /\ lastCall' = Call(t, "alpha", "")
     /\ UNCHANGED <<ircVars, friendVars, logVars, viewerVars, outVars>>
  \/ /\ nextLineId <= MaxFlushLineIds
     /\ \E c \in Channels, u \in Users :
          CacheMessage(c, u, "msg", RELATIONSHIP_NONE, <<>>)
     /\ lastCall' = Call("message", "alpha", "")
     /\ UNCHANGED <<ircVars, friendVars, logVars, viewerVars, outVars>>
  \/ /\ ScheduledBunchableStore
     /\ lastCall' = Call("_scheduledBunchableStore", "", "")
     /\ UNCHANGED <<ircVars, friendVars, logVars, viewerVars, outVars>>
  \/ FlushLineDelete

SpecFlush == Init /\ [][NextFlush]_vars

\* setInterval(_scheduledLineDelete, 10000): the timer keeps firing, so a
\* flush that stays due is run.
SpecFlushFair == SpecFlush /\ WF_vars(FlushLineDelete)

(***************************************************************************)
(* SpecPersist: the writes dispatched by the pipeline are called back,     *)
(* with an error or without one.                                           *)
(***************************************************************************)
\* db.storeLine(channelId, line, callback), dispatched.
StoreLineOp(lineId) == [op |-> "db.storeLine", lineIds |-> {lineId}]

\* log.logLine(line, dirName, fileName), dispatched: mkdirp, then
\* fs.appendFile.
LogLineOp(lineId) == [op |-> "log.logLine", lineIds |-> {lineId}]

\* db.deleteLinesWithLineIds(a, callback), dispatched.
DeleteLinesOp(lineIds) ==
  [op |-> "db.deleteLinesWithLineIds", lineIds |-> lineIds]

\* standardWritingCallback(err), and the callback of mkdirp in logLine:
\* `if (err) { throw err; }`, in a callback of the event loop.
standardWritingCallback(err) ==
  IF err THEN "uncaughtException" ELSE "running"

\* function(){}: the default callback of storeLine, and the callback
\* _scheduledLineDelete passes.
emptyCallback(err) == "running"

\* The write is called back.
Completed(o, err) ==
  /\ process = "running"
  /\ o \in pending
  /\ pending' = pending \ {o}
  /\ process' = IF o.op = "log.logLine" THEN standardWritingCallback(err)
                                        ELSE emptyCallback(err)
  /\ lastCall' = [op |-> "callback", server |-> "", socket |-> "",
                  result |-> IF err THEN "err" ELSE "", of |-> o]
  /\ emitted' = NothingEmitted
  /\ OutQuiet
  /\ UNCHANGED <<cacheVars, ircVars, friendVars, logRun, connectionToken,
                 recipients>>

\* log.logChannelLine(channel, line, d): the line of the record last cached
\* for the channel is written to the channel's log file.
LogChannelLine(channel) ==
  /\ process = "running"
  /\ Len(channelCaches[channel]) > 0
  /\ LogLineOp(Last(channelCaches[channel]).lineId) \notin pending
  /\ pending' = pending \cup {LogLineOp(Last(channelCaches[channel]).lineId)}
  /\ lastCall' = Call("logChannelLine", "alpha", "")
  /\ emitted' = NothingEmitted
  /\ OutQuiet
  /\ UNCHANGED <<cacheVars, ircVars, friendVars, logRun, process,
                 connectionToken, recipients>>

\* A message arrives: it is cached, stored and emitted.
PersistMessage(channel, username) ==
  /\ process = "running"
  /\ CacheMessageAndEmit(channel, username, "msg", RELATIONSHIP_NONE, <<>>)
  /\ pending' = pending
       \cup (IF logLinesDb THEN {StoreLineOp(nextLineId)} ELSE {})
  /\ lastCall' = Call("message", "alpha", "")
  /\ OutQuiet
  /\ UNCHANGED <<ircVars, friendVars, logRun, process>>

\* A low-signal event arrives: cacheChannelEvent stores it at once, a bunch
\* waits for the periodic insert.
PersistEvent(channel, type, username) ==
  /\ process = "running"
  /\ CacheBunchableChannelEventAndEmit(channel, type, username)
  /\ pending' = pending
       \cup (IF logLinesDb /\ Len(history'[channel]) > Len(history[channel])
               THEN {StoreLineOp(nextLineId)} ELSE {})
  /\ lastCall' = Call(type, "alpha", "")
  /\ OutQuiet
  /\ UNCHANGED <<ircVars, friendVars, logRun, process>>

\* _scheduledBunchableStore, with the writes it dispatches.
PersistBunchableStore ==
  /\ process = "running"
  /\ ScheduledBunchableStore
  /\ pending' = pending \cup {StoreLineOp(lineId) : lineId \in bunchableLinesToInsert}
  /\ lastCall' = Call("_scheduledBunchableStore", "", "")
  /\ emitted' = NothingEmitted
  /\ OutQuiet
  /\ UNCHANGED <<ircVars, friendVars, logRun, process, connectionToken,
                 recipients>>

\* _scheduledLineDelete, with the delete it dispatches.
PersistLineDelete ==
  /\ process = "running"
  /\ ScheduledLineDelete
  /\ pending' = pending \cup {DeleteLinesOp(lineIdsToDelete)}
  /\ lastCall' = DeleteCall(lineIdsToDelete)
  /\ emitted' = NothingEmitted
  /\ OutQuiet
  /\ UNCHANGED <<ircVars, friendVars, logRun, process, connectionToken,
                 recipients>>

NextPersist ==
  \/ /\ process = "running"
     /\ Token("s1", "good")
     /\ UNCHANGED <<friendVars, logVars>>
  \/ /\ process = "running"
     /\ Subscribe("s1", "alpha/x")
     /\ UNCHANGED <<friendVars, logVars>>
  \/ /\ nextLineId <= MaxPersistLineIds
     /\ \E u \in Users : PersistMessage("alpha/x", u)
  \/ /\ nextLineId + 1 <= MaxPersistLineIds
     /\ \E u \in Users : PersistEvent("alpha/x", "join", u)
  \/ LogChannelLine("alpha/x")
  \/ PersistBunchableStore
  \/ PersistLineDelete
  \/ \E o \in pending, err \in BOOLEAN : Completed(o, err)

SpecPersist == Init /\ [][NextPersist]_vars

(***************************************************************************)
(* SpecIncoming: low-signal events arrive for channels the client holds    *)
(* state for, and for channels it holds none for.                          *)
(***************************************************************************)
\* The "join", "part", "quit", "kick", "+mode", "-mode" and "kill"
\* listeners: each calls handleIncomingEvent(client, channel, type, data),
\* which reads client.chans[channel].users.  hasChans tells whether
\* client.chans[channel] is defined; when it is not, the read throws a
\* TypeError out of the listener before anything is handed on.
IncomingEventListener(i, channel, type, username, hasChans) ==
  IF hasChans
    THEN IncomingEvent(i, channel, type, username)
    ELSE /\ lastCall' = Call(type, clients[i].name, "TypeError")
         /\ emitted' = NothingEmitted
         /\ OutQuiet
         /\ UNCHANGED <<cacheVars, ircVars, connectionToken, recipients>>

NextIncoming ==
  \/ /\ clients = <<>>
     /\ Go(StartedConfig)
     /\ lastCall' = Call("go", "", "")
     /\ NoRequest
     /\ UNCHANGED <<cacheVars, friendVars, logVars>>
  \/ /\ nextLineId + 1 <= MaxIncomingLineIds
     /\ \E i \in 1..Len(clients), t \in EventTypeInputs, u \in Users,
           hasChans \in BOOLEAN :
          IncomingEventListener(i, "#x", t, u, hasChans)
     /\ UNCHANGED <<friendVars, logVars>>
  \/ /\ nextLineId <= MaxIncomingLineIds
     /\ \E i \in 1..Len(clients), u \in Users : IncomingMessage(i, "#x", u)
     /\ UNCHANGED <<friendVars, logVars>>

SpecIncoming == Init /\ [][NextIncoming]_vars

(***************************************************************************)
(* SpecRender: a record of any kind is rendered as a log line              *)
(* (server/log.js, getLogLineFromData).                                    *)
(***************************************************************************)
\* (reason ? " (" + reason + ")" : "")
withReason(reason) ==
  IF reason # <<>> THEN <<" ", "(">> \o reason \o <<")">> ELSE <<>>

\* lineFormats.part.build
partBuild(symbol, username, reason) ==
  <<"*", "*", " ">> \o symbol \o username \o <<" ", "l", "e", "f", "t">>
    \o withReason(reason)

\* lineFormats.quit.build
quitBuild(symbol, username, reason) ==
  <<"*", "*", " ">> \o symbol \o username \o <<" ", "q", "u", "i", "t">>
    \o withReason(reason)

\* lineFormats.kick.build
kickBuild(symbol, username, by, reason) ==
  <<"*", "*", " ">> \o symbol \o username
    \o <<" ", "w", "a", "s", " ", "k", "i", "c", "k", "e", "d", " ", "b", "y", " ">>
    \o by \o withReason(reason)

\* lineFormats.mode.build
modeBuild(symbol, username, mode, argument) ==
  <<"*", "*", " ">> \o symbol \o username
    \o <<" ", "s", "e", "t", "s", " ", "m", "o", "d", "e", ":", " ">> \o mode
    \o (IF argument # <<>> THEN <<" ">> \o argument ELSE <<>>)

\* lineFormats.kill.build
killBuild(symbol, username, reason) ==
  <<"*", "*", " ">> \o symbol \o username
    \o <<" ", "w", "a", "s", " ", "k", "i", "l", "l", "e", "d">>
    \o withReason(reason)

\* lineFormats.connectionEvent.build; a status and a preposition are one
\* entry each.
connectionEventBuild(status, server) ==
  LET by == CASE status = "connected" -> "to"
              [] status = "disconnected" -> "from"
              [] status = "failed" -> "to connect to"
              [] status = "aborted" -> "connecting to"
              [] OTHER -> "by"
  IN  <<"*", "*", "*", " ", status, " ", by, " ">> \o server

\* getLogLineFromData(type, data), type and data given: the switch has no
\* case for "notice", which falls to the final return "".
getLogLineFromData(type, data) ==
  CASE type \in {"msg", "action"} -> build(type, data)
    [] type = "join" -> joinBuild(data.symbol, data.username)
    [] type = "part" -> partBuild(data.symbol, data.username, data.reason)
    [] type = "quit" -> quitBuild(data.symbol, data.username, data.reason)
    [] type = "kill" -> killBuild(data.symbol, data.username, data.reason)
    [] type = "kick" ->
         kickBuild(data.symbol, data.username, data.by, data.reason)
    [] type = "mode" ->
         modeBuild(data.symbol, data.username, data.mode, data.argument)
    [] type = "connectionEvent" ->
         connectionEventBuild(data.status, data.server)
    [] OTHER -> <<>>

\* The kinds of record of the data model.
RecordKinds ==
  {"msg", "action", "notice", "join", "part", "quit", "kick", "mode", "kill",
   "connectionEvent"}

\* Valid data of a record: a reason and a mode argument may be absent.
RenderData ==
  [symbol : LogSymbols, username : {<<"a">>, <<"s", "a">>},
   message : {<<"h", "i">>}, reason : {<<>>, <<"r">>}, by : {<<"o", "p">>},
   mode : {<<"+", "o">>}, argument : {<<>>, <<"a">>},
   status : {"connected", "failed"}, server : {<<"a", "l", "p", "h", "a">>}]

RenderInputs ==
  {[stage |-> "data", type |-> t, data |-> d, line |-> <<>>, obj |-> NoMatch] :
     t \in RecordKinds, d \in RenderData}

InitRender ==
  /\ CacheInit
  /\ IrcInit
  /\ FriendIdle
  /\ lastCall = NoCall
  /\ logRun \in RenderInputs
  /\ pending = {}
  /\ process = "running"
  /\ ViewerIdle
  /\ OutIdle

\* The record is rendered.
RenderLogLine ==
  /\ logRun.stage = "data"
  /\ logRun' = [logRun EXCEPT
       !.stage = "rendered",
       !.line = getLogLineFromData(logRun.type, logRun.data)]
  /\ UNCHANGED <<pending, process>>

NextRender ==
  RenderLogLine
  /\ UNCHANGED <<cacheVars, ircVars, friendVars, lastCall, viewerVars, outVars>>

SpecRender == InitRender /\ [][NextRender]_vars

(***************************************************************************)
(* SpecReentrant: a record is published while a delivery makes a viewer    *)
(* leave the list that is being walked.                                    *)
(***************************************************************************)
NoSocket == ""

\* What the delivery to a socket does before it returns: nothing, or the
\* removal of a socket from the list of the key.
Reentries == [Sockets -> Sockets \cup {NoSocket}]

\* list.forEach((socket) => { socket.emit(eventName, eventData); }) on the
\* array itself: the indexes below the length the array had at the start
\* are visited in order and an index the array no longer has is passed
\* over, while removeRecipient (lodash.remove) takes a socket out of the
\* same array and moves the later ones down.
RECURSIVE forEachEmit(_, _, _, _, _, _)
forEachEmit(list, k, len, out, ev, removes) ==
  IF k > len THEN [list |-> list, out |-> out]
  ELSE IF k > Len(list) THEN forEachEmit(list, k + 1, len, out, ev, removes)
  ELSE LET socket == list[k]
       IN  forEachEmit(
             IF removes[socket] = NoSocket THEN list
               ELSE removeRecipient(list, removes[socket]),
             k + 1, len, [out EXCEPT ![socket] = Append(@, ev)], ev, removes)

\* cacheChannelEvent, whose emitEventToChannel walks the channel's
\* recipients while the deliveries remove recipients.
PublishReentrant(channel, removes) ==
  LET walk == forEachEmit(recipients[channel], 1, Len(recipients[channel]),
                          NothingEmitted,
                          event("channelEvent", channel, nextLineId), removes)
  IN  /\ CacheChannelEvent(channel, "connectionEvent")
      /\ emitted' = walk.out
      /\ recipients' = [recipients EXCEPT ![channel] = walk.list]
      /\ lastCall' = [op |-> "connectionEvent", server |-> "alpha",
                      socket |-> "", result |-> "", removes |-> removes]
      /\ OutQuiet
      /\ UNCHANGED <<ircVars, connectionToken>>

NextReentrant ==
  \/ (\E socket \in Sockets : Token(socket, "good"))
     /\ UNCHANGED <<friendVars, logVars>>
  \/ (\E socket \in Sockets : Subscribe(socket, "alpha/x"))
     /\ UNCHANGED <<friendVars, logVars>>
  \/ /\ nextLineId <= MaxReentrantLineIds
     /\ \E removes \in Reentries : PublishReentrant("alpha/x", removes)
     /\ UNCHANGED <<friendVars, logVars>>

SpecReentrant == Init /\ [][NextReentrant]_vars

(***************************************************************************)
(* SpecStorage: the writes and deletes handed to the database, all kept in *)
(* pending, while bunches supersede lines and the two flushes run.         *)
(***************************************************************************)
NextStorage ==
  \/ /\ nextLineId <= MaxStorageLineIds
     /\ \E u \in Users : PersistMessage("alpha/x", u)
  \/ /\ nextLineId + 1 <= MaxStorageLineIds
     /\ \E t \in EventTypeInputs, u \in Users : PersistEvent("alpha/x", t, u)
  \/ PersistBunchableStore
  \/ PersistLineDelete

SpecStorage == Init /\ [][NextStorage]_vars

(***************************************************************************)
(* SpecLog: a log line of any kind is built from any data and read back.   *)
(***************************************************************************)
InitLog ==
  /\ CacheInit
  /\ IrcInit
  /\ FriendIdle
  /\ lastCall = NoCall
  /\ logRun \in LogInputs
  /\ pending = {}
  /\ process = "running"
  /\ ViewerIdle
  /\ OutIdle

NextLog ==
  \/ BuildLogLine
     /\ UNCHANGED <<cacheVars, ircVars, friendVars, lastCall, viewerVars, outVars>>
  \/ ParseLogLine
     /\ UNCHANGED <<cacheVars, ircVars, friendVars, lastCall, viewerVars, outVars>>

SpecLog == InitLog /\ [][NextLog]_vars

(***************************************************************************)
(* SpecFriends: messages from senders, under any configured friend lists.  *)
(***************************************************************************)
InitFriends ==
  /\ CacheInit
  /\ IrcInit
  /\ bestFriends \in FriendLists
  /\ friends \in FriendLists
  /\ lastMessage = NoMessage
  /\ IoInit

NextFriends ==
  /\ nextLineId <= MaxFriendLineIds
  /\ \E c \in Channels, from \in Senders, h \in HighlightInputs :
       HandleMessage(c, from, h)
  /\ UNCHANGED <<ircVars, ioVars>>

SpecFriends == InitFriends /\ [][NextFriends]_vars

(***************************************************************************)
(* The claims.                                                             *)
(***************************************************************************)
CacheKeys == ChannelUris \cup Senders \cup Categories

\* getChannelCache, getUserCache, getCategoryCache
getCache(key) ==
  IF key \in ChannelUris THEN channelCaches[key]
  ELSE IF key \in Senders THEN userCaches[key]
  ELSE categoryCaches[key]

\* The step appended a record to the key (and did not replace its tail).
Appended(key) == Len(history'[key]) = Len(history[key]) + 1

\* The step replaced the tail of the channel's cache by a bunch.
Replaced(channel) ==
  /\ Len(run'[channel]) = Len(run[channel]) + 1
  /\ Len(history'[channel]) = Len(history[channel])

Min(a, b) == IF a < b THEN a ELSE b

\* C1, as stated: in every reachable state every cache is at most as long
\* as the capacity configured at that moment.
C1_LengthWithinCapacity ==
  \A key \in CacheKeys : Len(getCache(key)) <= getCacheLinesSetting(cacheLines)

\* C1, amended: right after an append to a key that key's cache is at most as
\* long as the capacity configured at that moment, and no step but an append
\* makes a cache longer.
C1_AppendWithinCapacity ==
  [][\A key \in CacheKeys :
       /\ Appended(key) =>
            Len(getCache(key)') <= getCacheLinesSetting(cacheLines')
       /\ Len(getCache(key)') > Len(getCache(key)) => Appended(key)]_vars

\* An append found the cache longer than a lowered capacity and cut it down
\* to the capacity, dropping two lines or more.
C1_Witness ==
  \E key \in CacheKeys :
    /\ cacheLines = MinCacheLines
    /\ Len(getCache(key)) = MinCacheLines
    /\ Len(history[key]) = DefaultCacheLines + 1
    /\ Last(getCache(key)).lineId = nextLineId - 1

\* C2: every cache holds the most recent lines of its key's history, in
\* order and without a gap; an append below the capacity removes nothing and
\* an append at the capacity removes the oldest line and no other.
C2_SuffixOfHistory ==
  [][\A key \in CacheKeys :
       LET before == getCache(key)
           after == getCache(key)'
           cap == getCacheLinesSetting(cacheLines)
       IN  /\ IsSuffix(LineIds(after), history'[key])
           /\ (Appended(key) /\ Len(before) < cap) =>
                after = Append(before, Last(after))
           /\ (Appended(key) /\ Len(before) = cap) =>
                after = Append(Tail(before), Last(after))
           /\ Appended(key) => Last(after).lineId = Last(history'[key])]_vars

\* A cache at its capacity has lost its oldest line to an append.
C2_Witness ==
  \E key \in CacheKeys :
    /\ Len(getCache(key)) = getCacheLinesSetting(cacheLines)
    /\ Len(history[key]) = Len(getCache(key)) + 1
    /\ LineIds(getCache(key)) = Tail(history[key])

\* A join and then a part have arrived on a channel whose cache was empty.
JoinThenPartOnEmpty(channel) ==
  /\ Len(run[channel]) = 2
  /\ run[channel][1].type = "join"
  /\ run[channel][2].type = "part"
  /\ Len(history[channel]) = 1

\* C3: a join and then a part on an empty channel cache leave one entry, of
\* type events, with the members [join, part], joinCount 1 and partCount 1.
C3_JoinPartBunch ==
  \A channel \in Channels :
    JoinThenPartOnEmpty(channel) =>
      /\ Len(channelCaches[channel]) = 1
      /\ channelCaches[channel][1].type = "events"
      /\ channelCaches[channel][1].events = run[channel]
      /\ channelCaches[channel][1].joinCount = 1
      /\ channelCaches[channel][1].partCount = 1

C3_Witness ==
  \E channel \in Channels :
    /\ JoinThenPartOnEmpty(channel)
    /\ channelCaches[channel][1].type = "events"

\* C4, as stated: the first bunch on a channel (a raw join merged with a part
\* on a cache that was empty) has an empty prevIds list.
C4_FirstBunchNoPrevIds ==
  \A channel \in Channels :
    JoinThenPartOnEmpty(channel) => Last(channelCaches[channel]).prevIds = <<>>

\* C4, amended: the prevIds of that first bunch is the one-entry list of the
\* line id of the raw join it replaced.
C4_FirstBunchPrevIds ==
  \A channel \in Channels :
    JoinThenPartOnEmpty(channel) =>
      Last(channelCaches[channel]).prevIds = <<run[channel][1].lineId>>

C4_Witness ==
  \E channel \in Channels :
    /\ JoinThenPartOnEmpty(channel)
    /\ Len(Last(channelCaches[channel]).prevIds) = 1

\* C5: a bunch that replaces the tail of a channel cache is a new record
\* (its id was never handed out before and is not in its prevIds) and its
\* prevIds holds the id of the tail it replaced - the first bunch's id after
\* a second replacement in a row.
C5_BunchIsNewRecord ==
  [][\A channel \in Channels :
       Replaced(channel) =>
         LET old == Last(channelCaches[channel])
             new == Last(channelCaches'[channel])
         IN  /\ new.type = "events"
             /\ new.lineId >= nextLineId
             /\ new.lineId \notin SeqToSet(new.prevIds)
             /\ new.lineId \notin SeqToSet(LineIds(new.events))
             /\ old.lineId \in SeqToSet(new.prevIds)]_vars

\* Two replacements in a row: the second bunch names the first bunch and the
\* raw line before it.
C5_Witness ==
  \E channel \in Channels :
    /\ Len(run[channel]) = 3
    /\ Last(channelCaches[channel]).type = "events"
    /\ Len(Last(channelCaches[channel]).prevIds) = 2
    /\ Last(channelCaches[channel]).prevIds[2] \notin
         SeqToSet(LineIds(run[channel]))

\* C6: once more than BUNCHED_EVENT_SIZE low-signal events have arrived in a
\* row on a channel, the bunch at the tail has BUNCHED_EVENT_SIZE members,
\* the most recent events in arrival order, and at most as many prevIds.
C6_BunchMemberCap ==
  \A channel \in Channels :
    Len(run[channel]) > BUNCHED_EVENT_SIZE =>
      LET tail == Last(channelCaches[channel])
      IN  /\ tail.type = "events"
          /\ Len(tail.events) = BUNCHED_EVENT_SIZE
          /\ tail.events = SubSeq(run[channel],
                                  Len(run[channel]) - BUNCHED_EVENT_SIZE + 1,
                                  Len(run[channel]))
          /\ Len(tail.prevIds) <= BUNCHED_EVENT_SIZE

\* Two events beyond the bunch size: members and prevIds have both rotated.
C6_Witness ==
  \E channel \in Channels :
    /\ Len(run[channel]) = BUNCHED_EVENT_SIZE + 2
    /\ Len(Last(channelCaches[channel]).events) = BUNCHED_EVENT_SIZE
    /\ Len(Last(channelCaches[channel]).prevIds) = BUNCHED_EVENT_SIZE

\* The step cached a highlighted record.
Highlighted == Len(history'["highlights"]) = Len(history["highlights"]) + 1

\* C7: right after cacheMessage has processed a highlighted record R, the
\* context of R is the min(N, L) most recent entries the channel cache had
\* before R, in cache order, and R is not one of them.
C7_ContextAtOpening ==
  [][Highlighted =>
       LET R == Last(categoryCaches'["highlights"])
           before == channelCaches[R.channel]
           context == contextMessages'[R.lineId]
       IN  /\ R.lineId \in SeqToSet(currentHighlightContexts'[R.channel])
           /\ Len(context) = Min(CONTEXT_CACHE_LINES, Len(before))
           /\ IsSuffix(context, before)
           /\ R.lineId \notin SeqToSet(LineIds(context))]_vars

\* A highlight has just been opened with a full context of N records, on a
\* channel that held more than N.
C7_Witness ==
  \E channel \in Channels :
    /\ Len(history[channel]) > CONTEXT_CACHE_LINES + 1
    /\ nextLineId - 1 \in DOMAIN contextMessages
    /\ Len(contextMessages[nextLineId - 1]) = CONTEXT_CACHE_LINES
    /\ Last(currentHighlightContexts[channel]) = nextLineId - 1

OpenHighlights ==
  UNION {SeqToSet(currentHighlightContexts[c]) : c \in ChannelUris}

\* C8: a highlight context never holds more than 2N records; one that holds
\* 2N is no longer open, and no later step changes it.
C8_ContextFinalizes ==
  [][\A h \in DOMAIN contextMessages' :
       /\ Len(contextMessages'[h]) <= 2 * CONTEXT_CACHE_LINES
       /\ Len(contextMessages'[h]) = 2 * CONTEXT_CACHE_LINES =>
            h \notin OpenHighlights'
       /\ (h \in DOMAIN contextMessages
             /\ Len(contextMessages[h]) = 2 * CONTEXT_CACHE_LINES) =>
            contextMessages'[h] = contextMessages[h]]_vars

\* A context is full and the channel has cached a record after its last one.
C8_Witness ==
  \E h \in DOMAIN contextMessages :
    /\ Len(contextMessages[h]) = 2 * CONTEXT_CACHE_LINES
    /\ h \notin OpenHighlights
    /\ Last(contextMessages[h]).lineId < nextLineId - 1

\* The servers that list the channel, by name.
ServersListing(channel) ==
  {clients[i].name : i \in {j \in 1..Len(clients) :
                              channel \in SeqToSet(clients[j].channels)}}

ListedChannels == {hashed(n) : n \in {"x", "y"}}

\* C9: after calibrateMultiServerChannels a channel name is marked as multi
\* server exactly when two or more distinct servers list it, however one
\* server lists it, and the full name of a channel carries the server name
\* exactly for those names.
C9_AmbiguousIffOnTwoServers ==
  calibrated =>
    \A channel \in ListedChannels :
      /\ channel \in SeqToSet(multiServerChannels)
           <=> Cardinality(ServersListing(channel)) >= 2
      /\ \A server \in ServerNames :
           getChannelFullName([server |-> server, channel |-> channel])
               = <<server, " ", channel>>
             <=> Cardinality(ServersListing(channel)) >= 2

\* The name is on the list, letter case aside.
OnList(list, username) ==
  \E i \in 1..Len(list) : toLowerCase(list[i]) = toLowerCase(username)

\* C10: the author of a message is a best friend when the name is on the
\* best friends list, letter case aside (and even when it is on the friends
\* list too), a friend when it is on the friends list only, and otherwise
\* has no relationship.
C10_RelationshipTier ==
  lastMessage # NoMessage =>
    lastMessage.relationship =
      IF OnList(bestFriends, lastMessage.username) THEN RELATIONSHIP_BEST_FRIEND
      ELSE IF OnList(friends, lastMessage.username) THEN RELATIONSHIP_FRIEND
      ELSE RELATIONSHIP_NONE

\* The step is a run of cacheMessage for a record of the channel: a new line
\* id was handed out to a message that is now the tail of the channel cache.
Messaged(channel) ==
  /\ nextLineId' = nextLineId + 1
  /\ Len(channelCaches'[channel]) > 0
  /\ Last(channelCaches'[channel]).lineId = nextLineId
  /\ Last(channelCaches'[channel]).type = "msg"

\* The step appended the record with that line id to the key's cache.
AppendedLine(key, id) ==
  /\ Appended(key)
  /\ Last(getCache(key)').lineId = id

\* C11: a record processed by cacheMessage is appended to its channel cache;
\* it is appended to its author's user cache and to "allfriends" exactly when
\* its relationship is friend or better, and to "highlights" exactly when its
\* highlight list is not empty; no record of an author without relationship
\* is in a user cache or in "allfriends".
C11_CacheNamespaces ==
  [][/\ \A channel \in Channels :
          Messaged(channel) =>
            LET R == Last(channelCaches'[channel])
            IN  /\ AppendedLine(channel, nextLineId)
                /\ \A u \in Senders :
                     AppendedLine(u, nextLineId)
                       <=> (u = R.username
                              /\ R.relationship >= RELATIONSHIP_FRIEND)
                /\ AppendedLine("allfriends", nextLineId)
                      <=> R.relationship >= RELATIONSHIP_FRIEND
                /\ AppendedLine("highlights", nextLineId)
                      <=> R.highlight # <<>>
                /\ \A u \in Senders \ {R.username} : userCaches'[u] = userCaches[u]
                /\ categoryCaches'["system"] = categoryCaches["system"]
     /\ \A key \in Senders \cup {"allfriends"} :
          \A i \in 1..Len(getCache(key)') :
            getCache(key)'[i].relationship # RELATIONSHIP_NONE]_vars

\* A friend's highlighted message is in all four caches, and a message of an
\* author without relationship is in the channel cache only.
C11_Witness ==
  \E channel \in Channels, u \in Senders :
    /\ Len(channelCaches[channel]) = 2
    /\ channelCaches[channel][1].relationship = RELATIONSHIP_NONE
    /\ channelCaches[channel][2].relationship = RELATIONSHIP_FRIEND
    /\ channelCaches[channel][2].highlight # <<>>
    /\ LineIds(userCaches[u]) = <<channelCaches[channel][2].lineId>>
    /\ LineIds(categoryCaches["allfriends"]) = LineIds(userCaches[u])
    /\ LineIds(categoryCaches["highlights"]) = LineIds(userCaches[u])

\* The step handled reconnectServer(serverName).
Reconnecting(serverName) ==
  /\ lastCall'.op = "reconnectServer"
  /\ lastCall'.server = serverName

\* The state of the server's session is not ABORTED: there is no client of
\* that name, or the state its client reported last is another one.
NotAborted(serverName) ==
  LET i == findClientByServerName(clients, serverName)
  IN  i = 0 \/ clients[i].state # "ABORTED"

\* C12: reconnectServer(S), called while the session of S is not ABORTED
\* (connected, disconnected and retrying, failed, or no such server), starts
\* no connection attempt, leaves the state of every session as it is and
\* ends in a warning.
C12_ReconnectRejected ==
  [][\A serverName \in ServerNames :
       (Reconnecting(serverName) /\ NotAborted(serverName)) =>
         /\ clients' = clients
         /\ lastCall'.result = "warn"]_vars

\* A reconnect request for a server whose session has failed was answered by
\* a warning.
C12_Witness ==
  \E i \in 1..Len(clients) :
    /\ lastCall = Call("reconnectServer", clients[i].name, "warn")
    /\ clients[i].state = "FAILED"
    /\ clients[i].conn = "gaveup"

\* C13, as stated: once the operator has disconnected a server, the state
\* its session reports is ABORTED until the operator reconnects it; an
\* attempt that was under way cannot bring the session back to CONNECTED.
C13_AbortHolds ==
  \A i \in 1..Len(clients) :
    clients[i].held => clients[i].state = "ABORTED"

\* C14, as stated: the line that a kind's build makes of any data is
\* classified by parseLogLine as that kind, and is parsed to the same values
\* for every field that was passed to build (the join line has no message).
C14_RoundTrip ==
  logRun.stage = "parsed" =>
    /\ logRun.obj.matched
    /\ logRun.obj.type = logRun.type
    /\ logRun.obj.symbol = logRun.data.symbol
    /\ logRun.obj.username = logRun.data.username
    /\ logRun.type # "join" => logRun.obj.message = logRun.data.message

\* The channels of a server.
ChannelsOf(serverName) ==
  {c \in ChannelUris : channelServerNameFromUrl(c) = serverName}

\* C15: a step that handles a message, an event, a change of the connection
\* state or the disconnection of one server leaves the cache and the list of
\* subscribers of every channel of the other server as they are, both
\* servers having a channel of the same name.
C15_OtherServerUntouched ==
  [][\A serverName \in ServerNames :
       lastCall'.server = serverName =>
         \A other \in ServerNames \ {serverName} :
           \A channel \in ChannelsOf(other) :
             /\ channelCaches'[channel] = channelCaches[channel]
             /\ recipients'[channel] = recipients[channel]]_vars

\* beta's channel holds a line and has a subscriber, alpha's channel holds
\* alpha's lines, and alpha has just been disconnected.
C15_Witness ==
  /\ lastCall = Call("disconnectServer", "alpha", "")
  /\ Len(channelCaches["beta/x"]) = 1
  /\ Len(channelCaches["alpha/x"]) >= 2
  /\ recipients["beta/x"] # <<>>
  /\ Len(clients) = 2
  /\ clients[1].state = "ABORTED"
  /\ clients[2].state = "CONNECTED"

\* The requests that need a token: every request but "token" itself (the end
\* of a connection is not a request).
GuardedRequests ==
  {"requestCache", "subscribe", "unsubscribe", "reportHighlightAsSeen",
   "clearUnseenHighlights", "sendMessage", "reconnectToIrcServer",
   "setAppConfigValue"}

\* C16: the handler of a request other than "token", made by a socket whose
\* last token is not an accepted one (or that has presented none), changes
\* no state of the server, sends nothing to IRC, feeds nothing to the
\* pipeline and emits nothing to any socket.
C16_NoTokenNoEffect ==
  [][\A socket \in Sockets :
       (/\ lastCall'.socket = socket
        /\ lastCall'.op \in GuardedRequests
        /\ connectionToken[socket] \notin AcceptedTokens) =>
         /\ UNCHANGED <<cacheVars, ircVars, friendVars>>
         /\ UNCHANGED <<connectionToken, recipients>>
         /\ emitted' = NothingEmitted
         /\ transmitted' = <<>>
         /\ incoming' = <<>>]_vars

\* A socket with a rejected token has asked to send a message, with an
\* accepted token in the command, to a server that is there, while the other
\* socket holds an accepted token; nothing was sent.
C16_Witness ==
  \E socket \in Sockets :
    /\ lastCall = Request("sendMessage", socket)
    /\ connectionToken[socket] = "bad"
    /\ \E other \in Sockets \ {socket} : connectionToken[other] = "good"
    /\ findClientByServerName(clients, "alpha") # 0
    /\ nextLineId <= MaxRequestLineIds
    /\ transmitted = <<>>
    /\ channelCaches["alpha/x"] = <<>>

\* The events that carry a record to the subscribers of a key.
RecordEvents == {"channelEvent", "listEvent"}

\* How many times the socket was sent the record with that id for the key.
Delivered(socket, key, id) ==
  Cardinality({i \in 1..Len(emitted[socket]) :
                 /\ emitted[socket][i].name \in RecordEvents
                 /\ emitted[socket][i].key = key
                 /\ emitted[socket][i].lineId = id})

\* The sockets subscribed to the key.
Subscribers(key) == SeqToSet(recipients[key])

\* C17: when a record is appended to the cache of a key (a channel, a user
\* or a category), every socket subscribed to the key at that moment is sent
\* the record for that key once, and no other socket is sent it for that key.
C17_DeliveredToSubscribers ==
  [][\A key \in CacheKeys, id \in 1..(MaxViewerLineIds + 1) :
       AppendedLine(key, id) =>
         \A socket \in Sockets :
           Delivered(socket, key, id)' =
             IF socket \in Subscribers(key) THEN 1 ELSE 0]_vars

\* A highlighted message of a friend has arrived while both sockets were
\* subscribed to the channel, one of them also to the user and the other
\* also to "highlights": each was sent the record for its own keys only.
C17_Witness ==
  \E id \in 1..MaxViewerLineIds :
    /\ lastCall.op = "message"
    /\ Subscribers("alpha/x") = {"s1", "s2"}
    /\ Subscribers("alice") = {"s1"}
    /\ Subscribers("highlights") = {"s2"}
    /\ Len(userCaches["alice"]) > 0
    /\ Last(userCaches["alice"]).lineId = id
    /\ Len(categoryCaches["highlights"]) > 0
    /\ Last(categoryCaches["highlights"]).lineId = id
    /\ Delivered("s1", "alpha/x", id) = 1
    /\ Delivered("s2", "alpha/x", id) = 1
    /\ Delivered("s1", "alice", id) = 1
    /\ Delivered("s2", "alice", id) = 0
    /\ Delivered("s1", "highlights", id) = 0
    /\ Delivered("s2", "highlights", id) = 1

\* C18: the id of a record cached in "highlights" is in the unseen set from
\* that step on, and an id leaves the unseen set only in a step of
\* reportHighlightAsSeen for that id or of clearUnseenHighlights; eviction
\* from the caches, bunching, and a viewer coming or going remove none.
C18_UnseenUntilAcknowledged ==
  [][/\ \A id \in 1..(MaxUnseenLineIds + 1) :
          AppendedLine("highlights", id) => id \in unseenHighlightIds'
     /\ \A id \in unseenHighlightIds \ unseenHighlightIds' :
          \/ /\ lastCall'.op = "reportHighlightAsSeen"
             /\ lastCall'.result = id
          \/ lastCall'.op = "clearUnseenHighlights"]_vars

\* Three highlights have come to caches that hold two lines; the first is
\* evicted, the second was acknowledged: the first and the third are unseen.
C18_Witness ==
  /\ lastCall.op = "reportHighlightAsSeen"
  /\ lastCall.result = 2
  /\ LineIds(categoryCaches["highlights"]) = <<2, 3>>
  /\ LineIds(channelCaches["alpha/x"]) = <<2, 3>>
  /\ unseenHighlightIds = {1, 3}

\* The step is a call of sendOutgoingMessage.
SentOut == lastCall'.op = "sendOutgoingMessage"

\* The call was for a server that has a session, and for a channel.
SessionExists ==
  /\ channelServerNameFromUrl(lastCall'.channelUri) # ""
  /\ channelNameFromUrl(lastCall'.channelUri) # ""
  /\ findClientByServerName(clients, lastCall'.server) # 0

\* C19: a call of sendOutgoingMessage for a server that has a session sends
\* one command to that server and channel and then hands one message to the
\* inbound pipeline - for the channel of the URI, authored by the nick of
\* the session, of the kind and with the text of the command sent - which is
\* cached as a line of that channel, and returns true; a call for a server
\* without session, or for a URI without server or channel, sends nothing,
\* hands nothing to the pipeline, caches and emits nothing, and returns
\* false.
C19_SentOnceEchoedOnce ==
  [][SentOut =>
       IF SessionExists
         THEN /\ Len(transmitted') = 1
              /\ transmitted'[1].server = lastCall'.server
              /\ transmitted'[1].channel = channelNameFromUrl(lastCall'.channelUri)
              /\ Len(incoming') = 1
              /\ incoming'[1].channel = lastCall'.channelUri
              /\ incoming'[1].username =
                   clients[findClientByServerName(clients, lastCall'.server)].nick
              /\ incoming'[1].type =
                   (IF transmitted'[1].command = "action" THEN "action" ELSE "msg")
              /\ incoming'[1].message = transmitted'[1].message
              /\ \A channelUri \in ChannelUris :
                   lastCall'.channelUri = channelUri =>
                     /\ AppendedLine(channelUri, nextLineId)
                     /\ Last(channelCaches'[channelUri]).type = incoming'[1].type
                     /\ Last(channelCaches'[channelUri]).username =
                          incoming'[1].username
              /\ lastCall'.result = "true"
         ELSE /\ transmitted' = <<>>
              /\ incoming' = <<>>
              /\ emitted' = NothingEmitted
              /\ UNCHANGED cacheVars
              /\ lastCall'.result = "false"]_vars

\* A message was sent to the channel of the second server and is the line
\* of its own nick there; the channel of the first server has no line.
C19_Witness ==
  /\ lastCall.op = "sendOutgoingMessage"
  /\ lastCall.channelUri = "beta/x"
  /\ lastCall.result = "true"
  /\ Len(transmitted) = 1
  /\ transmitted[1].server = "beta"
  /\ Len(incoming) = 1
  /\ incoming[1].username = "me"
  /\ Len(channelCaches["beta/x"]) = 1
  /\ channelCaches["beta/x"][1].username = "me"
  /\ channelCaches["alpha/x"] = <<>>

\* The message starts with "/me" and one space.
StartsWithMe(m) ==
  /\ Len(m) >= 4
  /\ SubSeq(m, 1, 4) = <<"/", "m", "e", " ">>

\* What was sent and what was echoed have that kind and that text.
SentAndEchoedAs(type, text) ==
  /\ transmitted'[1].command = (IF type = "action" THEN "action" ELSE "say")
  /\ transmitted'[1].message = text
  /\ incoming'[1].type = type
  /\ incoming'[1].message = text

\* C20, as stated: a message sent out that starts with "/me " is sent and
\* echoed as an action without those four characters; any other message is
\* sent and echoed with its text unchanged and the kind it was given.
C20_AsStated ==
  [][(SentOut /\ SessionExists) =>
       IF StartsWithMe(lastCall'.message)
         THEN SentAndEchoedAs("action",
                SubSeq(lastCall'.message, 5, Len(lastCall'.message)))
         ELSE SentAndEchoedAs(IF lastCall'.isAction THEN "action" ELSE "msg",
                              lastCall'.message)]_vars

\* The number of characters of "/me" and the white space after it at the
\* head of the message, 0 when the message does not start so.
MeHead(m) ==
  IF Len(m) >= 4 /\ SubSeq(m, 1, 3) = <<"/", "m", "e">> /\ m[4] \in {" ", "\t"}
    THEN CHOOSE n \in 4..Len(m) :
           /\ \A k \in 4..n : m[k] \in {" ", "\t"}
           /\ n = Len(m) \/ m[n + 1] \notin {" ", "\t"}
    ELSE 0

\* C20: a message sent out that is not given as an action and starts with
\* "/me" followed by white space is sent and echoed as an action without
\* "/me" and all the white space that follows it; any other message - one
\* without that head, or one given as an action - is sent and echoed with
\* its text unchanged and the kind it was given.
C20_MePrefixStripped ==
  [][(SentOut /\ SessionExists) =>
       IF ~lastCall'.isAction /\ MeHead(lastCall'.message) > 0
         THEN SentAndEchoedAs("action",
                SubSeq(lastCall'.message, MeHead(lastCall'.message) + 1,
                       Len(lastCall'.message)))
         ELSE SentAndEchoedAs(IF lastCall'.isAction THEN "action" ELSE "msg",
                              lastCall'.message)]_vars

\* "/me" and two spaces before "hi", not given as an action, was sent and
\* echoed as the action "hi".
C20_Witness ==
  /\ lastCall.op = "sendOutgoingMessage"
  /\ lastCall.message = <<"/", "m", "e", " ", " ", "h", "i">>
  /\ ~lastCall.isAction
  /\ Len(transmitted) = 1
  /\ transmitted[1].command = "action"
  /\ transmitted[1].message = <<"h", "i">>
  /\ Len(incoming) = 1
  /\ incoming[1].type = "action"
  /\ incoming[1].message = <<"h", "i">>

ReportedState(serverName) ==
  LET i == findClientByServerName(clients, serverName)
  IN  IF i = 0 \/ clients[i].state = "" THEN "DISCONNECTED" ELSE clients[i].state

\* The step is one in which the session of the server reports a state.
Reports(serverName) ==
  /\ lastCall'.server = serverName
  /\ lastCall'.op \in {"connect", "close", "abort", "disconnectServer"}
  /\ findClientByServerName(clients, serverName) # 0
  /\ findClientByServerName(clients', serverName) # 0

StateTransitions ==
  {<<"DISCONNECTED", "CONNECTING">>, <<"CONNECTING", "CONNECTED">>,
   <<"CONNECTED", "DISCONNECTED">>, <<"CONNECTING", "FAILED">>}

\* C22: a state a session reports follows the state it reported before by
\* DISCONNECTED->CONNECTING, CONNECTING->CONNECTED, CONNECTED->DISCONNECTED,
\* CONNECTING->FAILED or any->ABORTED, and ABORTED is reported only by a
\* session the operator has aborted.
C22_ReportedTransitions ==
  [][\A serverName \in ServerNames :
       Reports(serverName) =>
         /\ \/ <<ReportedState(serverName), ReportedState(serverName)'>>
                  \in StateTransitions
            \/ ReportedState(serverName)' = "ABORTED"
         /\ ReportedState(serverName)' = "ABORTED" =>
              clients'[findClientByServerName(clients', serverName)].aborted]_vars

\* The session of the server has reported FAILED last: the library gave up.
Failed(serverName) ==
  /\ findClientByServerName(clients, serverName) # 0
  /\ clients[findClientByServerName(clients, serverName)].state = "FAILED"

\* C23: a session that has reported FAILED keeps that state until the
\* operator acts on it, and reconnectServer for it is accepted and starts a
\* connection attempt.
C23_FailedUntilReconnect ==
  [][\A serverName \in ServerNames :
       Failed(serverName) =>
         /\ \/ Failed(serverName)'
            \/ /\ lastCall'.server = serverName
               /\ lastCall'.op \in {"reconnectServer", "disconnectServer",
                                    "removeServer"}
         /\ (lastCall'.op = "reconnectServer" /\ lastCall'.server = serverName) =>
              /\ lastCall'.result = "connect"
              /\ clients'[findClientByServerName(clients', serverName)].conn
                   = "attempt"]_vars

\* C24: after connectUnconnectedClients and after removeServer the multi
\* server channels are those the calibration gives for the clients that are
\* left, so a channel that only one remaining server lists is not among
\* them and its full name carries no server name.
C24_RecalibratedOnChange ==
  [][lastCall'.op \in {"connectUnconnectedClients", "removeServer"} =>
       /\ multiServerChannels' = calibrateMultiServerChannels(clients')
       /\ \A channel \in ListedChannels :
            Cardinality({j \in 1..Len(channelsVisited(clients')) :
                           channelsVisited(clients')[j] = channel}) <= 1
              => channel \notin SeqToSet(multiServerChannels')]_vars

\* C25: a record appended to a channel cache - a message, a highlighted
\* message or a low-signal event - is from that step on the last record of
\* the context of every highlight of the channel that was open before it.
C25_AppendedToOpenContexts ==
  [][\A channel \in ChannelUris :
       Appended(channel) =>
         \A h \in SeqToSet(currentHighlightContexts[channel]) :
           /\ Len(contextMessages'[h]) = Len(contextMessages[h]) + 1
           /\ Last(contextMessages'[h]).lineId
                = Last(channelCaches'[channel]).lineId]_vars

\* The part of C25 the code keeps: what cacheMessage appends to the channel
\* is added to every open context of the channel.
MessagesAppendedToOpenContexts ==
  [][\A channel \in ChannelUris :
       Messaged(channel) =>
         \A h \in SeqToSet(currentHighlightContexts[channel]) :
           /\ Len(contextMessages'[h]) = Len(contextMessages[h]) + 1
           /\ Last(contextMessages'[h]).lineId
                = Last(channelCaches'[channel]).lineId]_vars

\* The step replaced the bunch at the tail of the channel by a longer one.
Extended(channel) ==
  /\ Replaced(channel)
  /\ Last(channelCaches[channel]).type = "events"

\* The members of the bunch at the tail that the step has dropped.
DroppedMembers(channel) ==
  SeqToSet(Last(channelCaches[channel]).events)
    \ SeqToSet(Last(channelCaches'[channel]).events)

\* C26, as stated: when the extension of a bunch drops members, their ids
\* are among the prevIds of the new bunch.
C26_DroppedMemberIdsListed ==
  [][\A channel \in Channels :
       Extended(channel) =>
         \A e \in DroppedMembers(channel) :
           e.lineId \in SeqToSet(Last(channelCaches'[channel]).prevIds)]_vars

\* C26: the prevIds of a bunch that extends a bunch are the prevIds of the
\* bunch it replaces followed by the id of that bunch, cut to the most
\* recent BUNCHED_EVENT_SIZE; the id of a dropped member is among them only
\* if it was among the prevIds before.
C26_ReplacedBunchIdListed ==
  [][\A channel \in Channels :
       Extended(channel) =>
         LET old == Last(channelCaches[channel])
             new == Last(channelCaches'[channel])
         IN  /\ new.prevIds = LastN(Append(old.prevIds, old.lineId),
                                    BUNCHED_EVENT_SIZE)
             /\ \A e \in DroppedMembers(channel) :
                  e.lineId \in SeqToSet(new.prevIds)
                    => e.lineId \in SeqToSet(old.prevIds)]_vars

\* A bunch has been extended twice beyond its size: the second event of the
\* run is no longer a member and its id is not among the prevIds, which are
\* the ids of the two bunches replaced last.
C26_Witness ==
  \E channel \in Channels :
    LET tail == Last(channelCaches[channel])
    IN  /\ Len(run[channel]) = BUNCHED_EVENT_SIZE + 2
        /\ tail.type = "events"
        /\ run[channel][2] \notin SeqToSet(tail.events)
        /\ run[channel][2].lineId \notin SeqToSet(tail.prevIds)
        /\ Len(tail.prevIds) = BUNCHED_EVENT_SIZE
        /\ \A k \in 1..Len(tail.prevIds) :
             tail.prevIds[k] \notin SeqToSet(LineIds(run[channel]))

\* The ids of the records the contexts of the highlights hold.
ContextLineIds ==
  UNION {SeqToSet(LineIds(contextMessages[h])) : h \in DOMAIN contextMessages}

\* C27: a step that replaces the tail of a channel cache by a bunch leaves
\* the length of that cache and its entries before the tail as they were,
\* changes no other channel cache, no user cache, no category cache and no
\* highlight context, and the bunch supersedes (names in its prevIds) no
\* entry before the tail and no record a highlight context holds; and in
\* every step an entry that is not the tail of its channel cache is, if it
\* is still in the cache, the same record afterwards.
C27_ReplacementTouchesTailOnly ==
  [][\A channel \in ChannelUris :
       /\ Replaced(channel) =>
            LET old == channelCaches[channel]
                new == channelCaches'[channel]
            IN  /\ Len(new) = Len(old)
                /\ \A i \in 1..(Len(old) - 1) :
                     /\ new[i] = old[i]
                     /\ old[i].lineId \notin SeqToSet(Last(new).prevIds)
                /\ Last(new) # Last(old)
                /\ \A other \in ChannelUris \ {channel} :
                     channelCaches'[other] = channelCaches[other]
                /\ UNCHANGED <<userCaches, categoryCaches, contextMessages,
                               currentHighlightContexts>>
                /\ ContextLineIds \cap SeqToSet(Last(new).prevIds) = {}
       /\ \A i \in 1..(Len(channelCaches[channel]) - 1) :
            \A j \in 1..Len(channelCaches'[channel]) :
              channelCaches'[channel][j].lineId = channelCaches[channel][i].lineId
                => channelCaches'[channel][j] = channelCaches[channel][i]]_vars

\* A join, a highlighted message whose context holds that join, and a bunch
\* that has replaced a later join at the tail.
C27_Witness ==
  \E channel \in Channels :
    LET cache == channelCaches[channel]
    IN  /\ Len(cache) = 3
        /\ cache[1].type = "join"
        /\ cache[2].highlight # <<>>
        /\ cache[3].type = "events"
        /\ cache[2].lineId \in DOMAIN contextMessages
        /\ contextMessages[cache[2].lineId] = <<cache[1]>>

\* The kinds of record that are low-signal.
LowSignalKinds == {"join", "part", "quit", "kick", "mode", "kill"}

\* The step is the arrival of a low-signal record on the channel.
LowSignalArrived(channel) == Len(run'[channel]) = Len(run[channel]) + 1

\* C28: a low-signal record that arrives on a channel replaces the tail by
\* a bunch that holds it when the tail of the channel cache is a raw
\* low-signal record or a bunch; when the cache is empty or its tail is of
\* any other kind the record itself is appended as a new entry, without
\* prevIds, and no line id is queued for deletion or for a later insert.
C28_MergedOnlyIntoLowSignalTail ==
  [][\A channel \in Channels :
       LowSignalArrived(channel) =>
         LET cache == channelCaches[channel]
             data == Last(run'[channel])
             tail == Last(channelCaches'[channel])
         IN  IF Len(cache) > 0
                  /\ Last(cache).type \in LowSignalKinds \cup {"events"}
               THEN /\ Replaced(channel)
                    /\ Len(channelCaches'[channel]) = Len(cache)
                    /\ tail.type = "events"
                    /\ Last(tail.events) = data
               ELSE /\ Appended(channel)
                    /\ tail = data
                    /\ tail.type \in LowSignalKinds
                    /\ tail.prevIds = <<>>
                    /\ Last(history'[channel]) = data.lineId
                    /\ SubSeq(channelCaches'[channel], 1,
                              Len(channelCaches'[channel]) - 1)
                         = LastN(cache, Len(channelCaches'[channel]) - 1)
                    /\ UNCHANGED <<lineIdsToDelete, bunchableLinesToInsert>>]_vars

\* A join, a message and a join: the message between them has kept the
\* second join from being merged, the cache holds the three entries.
C28_Witness ==
  \E channel \in Channels :
    LET cache == channelCaches[channel]
    IN  /\ Len(cache) = 3
        /\ cache[1].type = "join"
        /\ cache[2].type = "msg"
        /\ cache[3].type = "join"
        /\ run[channel] = <<cache[3]>>
        /\ lineIdsToDelete = {}

\* The ids a line can have while the flushes run.
FlushLineIds == 1..(MaxFlushLineIds + 1)

\* The step handed the id to db.deleteLinesWithLineIds.
PassedToDeletion(lineId) ==
  /\ lastCall.op = "db.deleteLinesWithLineIds"
  /\ lineId \in lastCall.lineIds

\* C29: the id of a tail that a bunch replaces is queued in that step and no
\* delete is issued by it; a queued id stays queued until the step that hands
\* it to the database in the batch of the periodic flush, and every queued id
\* is handed over in the end.
C29_SupersededQueuedThenDeleted ==
  /\ [][\A channel \in Channels :
          Replaced(channel) =>
            /\ Last(channelCaches[channel]).lineId \in lineIdsToDelete'
            /\ lastCall'.op # "db.deleteLinesWithLineIds"]_vars
  /\ [][\A lineId \in lineIdsToDelete :
          lineId \in lineIdsToDelete' \/ PassedToDeletion(lineId)']_vars
  /\ [][\A lineId \in FlushLineIds :
          PassedToDeletion(lineId)' => lineId \in lineIdsToDelete]_vars
  /\ \A lineId \in FlushLineIds :
       (lineId \in lineIdsToDelete) ~> PassedToDeletion(lineId)

\* Three joins in a row: the first join and the first bunch were superseded,
\* and the flush has handed both ids over and emptied the queue.
C29_Witness ==
  /\ lastCall.op = "db.deleteLinesWithLineIds"
  /\ lastCall.lineIds = {1, 3}
  /\ lineIdsToDelete = {}
  /\ \E channel \in Channels :
       /\ Len(channelCaches[channel]) = 1
       /\ Last(channelCaches[channel]).type = "events"
       /\ {1, 3} \subseteq SeqToSet(Last(channelCaches[channel]).prevIds)

\* The step is the callback of a write that failed.
FailedWrite(ops) ==
  /\ lastCall'.op = "callback"
  /\ lastCall'.result = "err"
  /\ lastCall'.of.op \in ops

\* The failed write is not thrown into the process and leaves the caches as
\* they were.
Contained ==
  /\ process' = "running"
  /\ UNCHANGED <<channelCaches, userCaches, categoryCaches>>

\* C30, as stated: the callback of a failed write (db.storeLine,
\* db.deleteLinesWithLineIds or the append to a log file) throws nothing
\* into the process and changes no cache, the process goes on handling
\* records, and every record appended to the channel's cache is emitted to
\* the channel's subscribers whatever became of its writes.
C30_PersistenceFailureContained ==
  /\ [][FailedWrite({"db.storeLine", "db.deleteLinesWithLineIds", "log.logLine"})
          => Contained]_vars
  /\ [][\A id \in 1..(MaxPersistLineIds + 1) :
          AppendedLine("alpha/x", id) =>
            \A socket \in Subscribers("alpha/x") :
              Delivered(socket, "alpha/x", id)' = 1]_vars
  /\ [](process = "running")

\* The same of the two database writes alone.
StorageFailureContained ==
  [][FailedWrite({"db.storeLine", "db.deleteLinesWithLineIds"}) => Contained]_vars

\* The step handled a low-signal event.
EventHandled == lastCall'.op \in LowSignalKinds

\* C31, as stated: the handling of a join, part, quit, kick, mode or kill
\* event throws nothing, whether or not the client holds state for the
\* channel the event names: the event becomes a record of its channel (one
\* more line, or a bunch in place of the tail) or it is dropped and every
\* cache stays as it was.
C31_EventNeverThrows ==
  [][EventHandled =>
       /\ lastCall'.result # "TypeError"
       /\ \/ \E channel \in ChannelUris : Appended(channel) \/ Replaced(channel)
          \/ UNCHANGED <<channelCaches, userCaches, categoryCaches>>]_vars

\* C32, as stated: the line rendered for a record of any kind of the data
\* model, from valid data of that kind, is not empty.
C32_EveryKindRendered ==
  logRun.stage = "rendered" /\ logRun.type \in RecordKinds =>
    logRun.line # <<>>

\* The same of every kind but "notice".
EveryKindButNoticeRendered ==
  logRun.stage = "rendered" /\ logRun.type \in RecordKinds \ {"notice"} =>
    logRun.line # <<>>

\* The step published a record while a delivery removed a subscriber.
RemovedWhilePublishing(key) ==
  /\ Appended(key)
  /\ Subscribers(key)' # Subscribers(key)

\* C33, as stated: when a viewer is removed from the list of a key by a
\* delivery while a record is published to the key, every other viewer
\* that was subscribed when the publish started is sent the record once.
C33_OthersStillDelivered ==
  [][\A id \in 1..(MaxReentrantLineIds + 1) :
       AppendedLine("alpha/x", id) /\ RemovedWhilePublishing("alpha/x") =>
         \A socket \in Subscribers("alpha/x")' :
           Delivered(socket, "alpha/x", id)' = 1]_vars

\* Without a removal during the publish every subscriber is sent the record
\* once.
UndisturbedDelivered ==
  [][\A id \in 1..(MaxReentrantLineIds + 1) :
       AppendedLine("alpha/x", id) /\ ~RemovedWhilePublishing("alpha/x") =>
         \A socket \in Subscribers("alpha/x") :
           Delivered(socket, "alpha/x", id)' = 1]_vars

\* The keys whose list of recipients the step changes.
ChangedKeys == {key \in DOMAIN recipients : recipients'[key] # recipients[key]}

\* C34: a subscribe request changes at most one list, and only by adding
\* the socket to a list that did not hold it; an unsubscribe request changes
\* at most one list, and only by taking the socket out of a list that held
\* it.  So a second subscribe to the same key, an unsubscribe of a socket
\* that is not subscribed and a second unsubscribe change nothing, no list
\* ever holds a socket twice, and a record is sent to a socket once per key.
C34_SubscribeIdempotent ==
  /\ [][lastCall'.op = "subscribe" =>
          /\ Cardinality(ChangedKeys) <= 1
          /\ \A key \in ChangedKeys :
               /\ lastCall'.socket \notin Subscribers(key)
               /\ recipients'[key] = Append(recipients[key], lastCall'.socket)]_vars
  /\ [][lastCall'.op = "unsubscribe" =>
          /\ Cardinality(ChangedKeys) <= 1
          /\ \A key \in ChangedKeys :
               /\ lastCall'.socket \in Subscribers(key)
               /\ lastCall'.socket \notin Subscribers(key)'
               /\ Subscribers(key)' = Subscribers(key) \ {lastCall'.socket}]_vars
  /\ [](\A key \in DOMAIN recipients :
          \A i, j \in 1..Len(recipients[key]) :
            recipients[key][i] = recipients[key][j] => i = j)
  /\ [][\A key \in CacheKeys, id \in 1..(MaxViewerLineIds + 1), socket \in Sockets :
          AppendedLine(key, id) => Delivered(socket, key, id)' <= 1]_vars

\* s1 has subscribed to the channel a second time, after s2 had subscribed
\* behind it: the list still holds s1 once, in its first place.
C34_Witness ==
  /\ lastCall.op = "subscribe"
  /\ lastCall.socket = "s1"
  /\ recipients["alpha/x"] = <<"s1", "s2">>
  /\ \A key \in DOMAIN recipients \ {"alpha/x"} : "s1" \notin Subscribers(key)

SnapshotSent(socket, key) ==
  \E i \in 1..Len(emitted'[socket]) :
    /\ emitted'[socket][i].name = "cache"
    /\ emitted'[socket][i].key = key

\* C36: the step that subscribes a socket to a channel sends it the
\* snapshot of the cache as it is, the cache being the same before and
\* after the step; from then on every step that changes the channel's cache
\* while the socket is subscribed sends the socket the new tail once, and
\* nothing else for the channel: a record that was in no earlier content of
\* the cache, and the tail of the cache when it is sent.
C36_SnapshotThenEveryRecord ==
  /\ [][\A channel \in ChannelUris, socket \in Sockets :
          lastCall'.op = "subscribe" /\ lastCall'.socket = socket
            /\ socket \in Subscribers(channel)' \ Subscribers(channel) =>
            /\ SnapshotSent(socket, channel)
            /\ channelCaches'[channel] = channelCaches[channel]]_vars
  /\ [][\A channel \in ChannelUris, socket \in Sockets,
           id \in 1..(MaxServerLineIds + 1) :
          socket \in Subscribers(channel)
            /\ channelCaches'[channel] # channelCaches[channel]
            /\ Last(channelCaches'[channel]).lineId = id =>
            /\ Delivered(socket, channel, id)' = 1
            /\ Len(emitted'[socket]) = 1
            /\ id \notin SeqToSet(LineIds(channelCaches[channel]))
            /\ id \notin SeqToSet(history[channel])]_vars
  /\ [][\A channel \in ChannelUris :
          channelCaches'[channel] # channelCaches[channel] =>
            /\ Len(channelCaches'[channel]) > 0
            /\ Last(channelCaches'[channel]).lineId \in 1..(MaxServerLineIds + 1)]_vars

\* s1, subscribed to the channel, has been sent the bunch that took the
\* place of the tail, and the bunch is the tail of the cache.
C36_Witness ==
  /\ lastCall.op = "join"
  /\ "s1" \in Subscribers("alpha/x")
  /\ Len(channelCaches["alpha/x"]) > 0
  /\ Last(channelCaches["alpha/x"]).type = "events"
  /\ Delivered("s1", "alpha/x", Last(channelCaches["alpha/x"]).lineId) = 1

\* The line was handed to db.storeLine and to no delete: it is in durable
\* storage, or on its way there.
Stored(lineId) ==
  /\ [op |-> "db.storeLine", lineIds |-> {lineId}] \in pending
  /\ \A o \in pending :
       o.op = "db.deleteLinesWithLineIds" => lineId \notin o.lineIds

\* The ids a bunch in a channel's cache has superseded.
SupersededIds ==
  UNION {UNION {SeqToSet(channelCaches[channel][i].prevIds) :
                  i \in 1..Len(channelCaches[channel])} :
           channel \in ChannelUris}

\* The step hands the line to db.storeLine.
StoreDispatched(lineId) ==
  /\ [op |-> "db.storeLine", lineIds |-> {lineId}] \in pending'
  /\ [op |-> "db.storeLine", lineIds |-> {lineId}] \notin pending

\* C37: no id waits for the insert and for the delete at once; an id comes
\* to wait for the insert only as a fresh one, and is handed to storage
\* either as the fresh record of the step or by the flush while it still
\* waits, so that a bunch superseded before the flush is never written; a
\* superseded id that is in storage waits for its delete, and once both
\* flushes have run only the bunch at the end of a run is stored, none of
\* those it superseded.
C37_InsertAndDeleteDisjoint ==
  /\ [](bunchableLinesToInsert \cap lineIdsToDelete = {})
  /\ [][\A lineId \in 1..(MaxStorageLineIds + 1) :
          /\ lineId \in bunchableLinesToInsert' \ bunchableLinesToInsert =>
               lineId >= nextLineId
          /\ lineId \in bunchableLinesToInsert /\ lineId \in lineIdsToDelete' =>
               lineId \notin bunchableLinesToInsert' /\ ~StoreDispatched(lineId)
          /\ StoreDispatched(lineId) =>
               \/ lineId = nextLineId
               \/ /\ lastCall'.op = "_scheduledBunchableStore"
                  /\ lineId \in bunchableLinesToInsert
                  /\ lineId \notin lineIdsToDelete]_vars
  /\ [](\A lineId \in SupersededIds :
          /\ lineId \notin bunchableLinesToInsert
          /\ Stored(lineId) => lineId \in lineIdsToDelete)
  /\ [](bunchableLinesToInsert = {} /\ lineIdsToDelete = {} =>
          \A channel \in ChannelUris : \A i \in 1..Len(channelCaches[channel]) :
            channelCaches[channel][i].type = "events" =>
              /\ Stored(channelCaches[channel][i].lineId)
              /\ \A lineId \in SeqToSet(channelCaches[channel][i].prevIds) :
                   ~Stored(lineId))

\* A bunch was written by the insert flush and then superseded by the
\* bunch of a third join; both flushes have run again: the second bunch is
\* stored alone, the first and the first join are deleted.
C37_Witness ==
  /\ bunchableLinesToInsert = {}
  /\ lineIdsToDelete = {}
  /\ Stored(5)
  /\ ~Stored(3)
  /\ ~Stored(1)
  /\ [op |-> "db.storeLine", lineIds |-> {3}] \in pending
  /\ LineIds(channelCaches["alpha/x"]) = <<5>>

\* How many events of the kinds there are among the events.
CountOf(events, kinds) ==
  Cardinality({i \in 1..Len(events) : events[i].type \in kinds})

\* The low-signal kinds that count as a part.
PartKinds == {"part", "quit", "kick", "kill"}

\* C38: the bunch at the tail of a channel counts, in joinCount and in
\* partCount, the joins and the parts among all the events merged into it
\* since the run began, those no longer among its members included; and a
\* replacement of a bunch by a bunch lowers neither counter.
C38_CountersCountTheRun ==
  /\ [](\A channel \in Channels :
          Len(run[channel]) >= 2 =>
            LET tail == Last(channelCaches[channel])
            IN  /\ tail.type = "events"
                /\ tail.joinCount = CountOf(run[channel], {"join"})
                /\ tail.partCount = CountOf(run[channel], PartKinds))
  /\ [][\A channel \in Channels :
          Replaced(channel) /\ Last(channelCaches[channel]).type = "events" =>
            /\ Last(channelCaches'[channel]).joinCount
                 >= Last(channelCaches[channel]).joinCount
            /\ Last(channelCaches'[channel]).partCount
                 >= Last(channelCaches[channel]).partCount]_vars

\* Joins in a row, more than a bunch keeps as members: the bunch counts
\* them all.
C38_Witness ==
  \E channel \in Channels :
    LET tail == Last(channelCaches[channel])
    IN  /\ Len(run[channel]) = BUNCHED_EVENT_SIZE + 2
        /\ CountOf(run[channel], {"join"}) = BUNCHED_EVENT_SIZE + 1
        /\ tail.type = "events"
        /\ tail.joinCount = BUNCHED_EVENT_SIZE + 1
        /\ tail.partCount = 1
        /\ Len(tail.events) = BUNCHED_EVENT_SIZE

\* The socket is emitted, in the step just taken, an event of one of the names.
EmittedAny(socket, names) ==
  \E i \in 1..Len(emitted[socket]) : emitted[socket][i].name \in names

\* The socket's connection holds no accepted token.
Unaccepted(socket) == connectionToken[socket] \notin {"good"}

\* C39: a socket whose connection has presented no token at all, and so no
\* accepted one, is emitted no channel event, no cache, no new highlight and
\* no list of unseen highlights.
C39_UnacceptedReceivesNothing ==
  [][\A socket \in Sockets :
       (connectionToken[socket] = NoToken /\ connectionToken'[socket] = NoToken)
         => ~EmittedAny(socket, {"channelEvent", "cache", "categoryCache",
                                 "listEvent", "newHighlight",
                                 "unseenHighlights"})']_vars

\* What holds: a socket that never presents an accepted token is never
\* emitted what goes to the recipients of a key or answers a request.
UnacceptedReceivesNoSubscription ==
  \A socket \in Sockets :
    [](Unaccepted(socket)) =>
      [](~EmittedAny(socket, {"channelEvent", "cache", "categoryCache",
                              "listEvent"}))

\* The operator has reconnected the client's server since disconnecting it,
\* and the attempt that began has neither connected nor been given up.
ReconnectInProgress(i) ==
  /\ clients[i].aborted
  /\ ~clients[i].held
  /\ clients[i].conn = "attempt"

\* C40: while the attempt that an operator's reconnect began is in progress,
\* a further reconnectServer for that server starts no attempt, and the
\* state reported for the server is not ABORTED.
C40_OneAttemptAtATime ==
  /\ [][\A i \in 1..Len(clients) :
          (/\ ReconnectInProgress(i)
           /\ lastCall'.op = "reconnectServer"
           /\ lastCall'.server = clients[i].name)
            => lastCall'.result = "warn"]_vars
  /\ [](\A i \in 1..Len(clients) :
          ReconnectInProgress(i) => clients[i].state # "ABORTED")

\* What holds: a reconnectServer for a server whose session has connected
\* since the operator's reconnect starts no attempt.
ConnectedReconnectDisregarded ==
  [][\A i \in 1..Len(clients) :
       (/\ ~clients[i].aborted
        /\ lastCall'.op = "reconnectServer"
        /\ lastCall'.server = clients[i].name)
         => /\ lastCall'.result = "warn"
            /\ clients' = clients]_vars

====
